---- MODULE Spec2Model ----
(***************************************************************************)
(* Verification model of the MCP OAuth reference server: the auth gate     *)
(* (middleware/auth), the token validator (auth/tokenValidator), the SSE   *)
(* route handlers (routes/sse), the router and the session registry.       *)
(*                                                                         *)
(* Strings the code inspects (URLs, header values, cookies) are sequences  *)
(* of string tokens, so that includes / startsWith / split / URL parsing   *)
(* are computed on them as the code computes them on characters.           *)
(***************************************************************************)
EXTENDS Integers, Sequences, FiniteSets, TLC

VARIABLES
  transports,   \* session registry: sessionId -> connection handle (response of the /sse request)
  sidCount,     \* number of session identifiers generated so far
  req,          \* per connection slot: the request being handled, or NoReq
  pc,           \* per slot: position of the request's control flow
  status,       \* per slot: HTTP status written (0: none)
  ended,        \* per slot: res.writableEnded
  open,         \* per slot: the underlying connection is open
  listener,     \* per slot: sessionId the res "close" listener removes, or NULL
  verified,     \* per slot: verifyToken resolved for this request's credential
  target,       \* per slot: connection handle the posted message is being handed to
  regLog,       \* history of registry calls: <<"register", id>> / <<"remove", id>>
  stale,        \* the session shortcut admitted a request for a sessionId removed before
  refused,      \* a request naming a removed sessionId came and the shortcut did not admit it
  g,            \* direct invocation of an exported gate: its state
  ext,          \* direct invocation of extractToken: request and result
  rt,           \* one call of Router.handleRequest on a router with any routes and middleware
  fl,           \* one run of the client's startOAuthFlow and its callback listener
  dc,           \* one call of the client's decodeToken: input and result
  vf,           \* one call of verifyToken on any token: its steps and result
  cl,           \* the client's main: its position and what it has seen
  last          \* the response the latest server step completed, NoAnswer if none

vars == <<transports, sidCount, req, pc, status, ended, open, listener,
          verified, target, regLog, stale, refused, g, ext, rt, fl, dc, vf, cl, last>>

\* the state of the server and of the direct invocations of its gate
serverVars == <<transports, sidCount, req, pc, status, ended, open, listener,
                verified, target, regLog, stale, refused, g, ext, last>>

-----------------------------------------------------------------------------
(* Bounds *)

MaxSessions == 2
MaxRequests == 2

-----------------------------------------------------------------------------
(* JavaScript values *)

NULL == "<null>"          \* null / undefined
NonString == "<number>"   \* a body field that is not a string

Falsy(x) == x = NULL \/ x = ""

\* the element of a one-element set (used to name a value computed once)
The(S) == CHOOSE x \in S : TRUE

\* String.prototype.startsWith / includes on token sequences
StartsWith(s, p) == Len(s) >= Len(p) /\ SubSeq(s, 1, Len(p)) = p

Includes(s, p) == \E i \in 1..(Len(s) - Len(p) + 1) : SubSeq(s, i, i + Len(p) - 1) = p

\* String.prototype.trim on a one-token string
Trim(t) == IF t \in {"", " "} THEN "" ELSE t

\* String.prototype.toLowerCase on the tokens that differ from their lower case
ToLowerCase(t) == IF t = "Bearer " THEN "bearer " ELSE t

\* index of the first occurrence of token c in s, 0 when absent
IndexOf(s, c) ==
  IF \E i \in 1..Len(s) : s[i] = c
    THEN CHOOSE i \in 1..Len(s) : s[i] = c /\ \A j \in 1..(i - 1) : s[j] # c
    ELSE 0

\* String.prototype.split(c): the sequence of parts
RECURSIVE Split(_, _)
Split(s, c) ==
  LET i == IndexOf(s, c)
  IN  IF i = 0 THEN <<s>>
      ELSE <<SubSeq(s, 1, i - 1)>> \o Split(SubSeq(s, i + 1, Len(s)), c)

\* a part as a string value (parts hold at most one token)
Str(part) == IF part = <<>> THEN "" ELSE part[1]

\* new URL(url, base).searchParams.get(key): first value of key, NULL when absent
RECURSIVE FirstParam(_, _)
FirstParam(params, key) ==
  IF params = <<>> THEN NULL
  ELSE LET kv == Split(Head(params), "=")
       IN  IF Str(kv[1]) = key
             THEN (IF Len(kv) >= 2 THEN Str(kv[2]) ELSE "")
             ELSE FirstParam(Tail(params), key)

SearchParamsGet(url, key) ==
  LET q == IndexOf(url, "?")
  IN  IF q = 0 \/ q = Len(url) THEN NULL
      ELSE FirstParam(Split(SubSeq(url, q + 1, Len(url)), "&"), key)

-----------------------------------------------------------------------------
(* Requests.  A request is a record                                        *)
(*   method, url (token sequence), authorization (token sequence, <<>> if  *)
(*   the header is absent), cookie (token sequence, <<>> if absent),       *)
(*   contentType (token sequence, <<>> if absent), bodyToken (req.body's   *)
(*   token field; NULL when there is no parsed body or no such field).     *)

\* Array.prototype.map(toLowerCase) over the tokens of a header value
LowerSeq(s) == [i \in 1..Len(s) |-> ToLowerCase(s[i])]

\* String.prototype.trim on a token sequence: drops blank tokens at both ends
RECURSIVE TrimLeft(_)
TrimLeft(s) == IF s # <<>> /\ Head(s) = " " THEN TrimLeft(Tail(s)) ELSE s

RECURSIVE TrimRight(_)
TrimRight(s) ==
  IF s # <<>> /\ s[Len(s)] = " " THEN TrimRight(SubSeq(s, 1, Len(s) - 1)) ELSE s

TrimSeq(s) == TrimRight(TrimLeft(s))

\* auth.ts 53-62: the Authorization header as a credential source
HeaderSource(r) ==
  IF r.authorization # <<>> /\ StartsWith(LowerSeq(r.authorization), <<"bearer ">>)
    THEN [hit |-> TRUE, value |-> Str(Tail(r.authorization))]
    ELSE [hit |-> FALSE, value |-> NULL]

\* auth.ts 65-75: the access_token URL query parameter
UrlSource(r) ==
  IF Includes(r.url, <<"?">>)
    THEN [hit |-> TRUE, value |-> SearchParamsGet(r.url, "access_token")]
    ELSE [hit |-> FALSE, value |-> NULL]

\* auth.ts 78-88: the first cookie named access_token
RECURSIVE CookieScan(_)
CookieScan(cookies) ==
  IF cookies = <<>> THEN [hit |-> FALSE, value |-> NULL]
  ELSE LET kv == Split(TrimSeq(Head(cookies)), "=")
       IN  IF Str(kv[1]) = "access_token"
             THEN [hit |-> TRUE, value |-> IF Len(kv) >= 2 THEN Str(kv[2]) ELSE NULL]
             ELSE CookieScan(Tail(cookies))

CookieSource(r) ==
  IF r.cookie # <<>> THEN CookieScan(Split(r.cookie, ";"))
  ELSE [hit |-> FALSE, value |-> NULL]

\* auth.ts 91-99: the token field of a parsed JSON body of a POST request
BodySource(r) ==
  IF /\ r.method = "POST"
     /\ Includes(r.contentType, <<"application/json">>)
     /\ ~Falsy(r.bodyToken)
    THEN [hit |-> TRUE, value |-> r.bodyToken]
    ELSE [hit |-> FALSE, value |-> NULL]

\* JavaScript !token
NoToken(st) == Falsy(st.token)

\* auth.ts 49-62: token and source after the header loop
AfterHeader(r, h) ==
  IF h.hit THEN [token |-> h.value, source |-> "Authorization header",
                 consulted |-> {"Authorization header"}]
  ELSE [token |-> NULL, source |-> "none", consulted |-> {"Authorization header"}]

\* auth.ts 65-75
AfterUrl(r, st, u) ==
  IF NoToken(st) /\ Includes(r.url, <<"?">>)
    THEN [token |-> u.value,
          source |-> IF ~Falsy(u.value) THEN "URL parameter" ELSE st.source,
          consulted |-> st.consulted \cup {"URL parameter"}]
    ELSE st

\* faulty variant of AfterCookie: the cookie is read even when a token was found
AfterCookieAlways(r, st, k) ==
  IF r.cookie # <<>>
    THEN [token |-> IF k.hit THEN k.value ELSE st.token,
          source |-> IF k.hit THEN "Cookie" ELSE st.source,
          consulted |-> st.consulted \cup {"Cookie"}]
    ELSE st

\* auth.ts 78-88
AfterCookie(r, st, k) ==
  IF NoToken(st) /\ r.cookie # <<>>
    THEN [token |-> IF k.hit THEN k.value ELSE st.token,
          source |-> IF k.hit THEN "Cookie" ELSE st.source,
          consulted |-> st.consulted \cup {"Cookie"}]
    ELSE st

\* auth.ts 91-99
AfterBody(r, st, b) ==
  IF NoToken(st) /\ r.method = "POST" /\ Includes(r.contentType, <<"application/json">>)
    THEN [token |-> IF b.hit THEN b.value ELSE st.token,
          source |-> IF b.hit THEN "Request body" ELSE st.source,
          consulted |-> st.consulted \cup {"Request body"}]
    ELSE st

\* auth.ts 48-102.  consulted: the sources whose block was entered
extractToken(r) ==
  The({AfterBody(r, s3, b) :
         s3 \in {AfterCookie(r, s2, k) :
                   s2 \in {AfterUrl(r, s1, u) :
                             s1 \in {AfterHeader(r, h) : h \in {HeaderSource(r)}},
                             u \in {UrlSource(r)}},
                   k \in {CookieSource(r)}},
         b \in {BodySource(r)}})

-----------------------------------------------------------------------------
(* Token validator (auth/tokenValidator).                                  *)
(* A credential string stands for a JWT; JwtOf gives what jsonwebtoken     *)
(* reads from it: fmt (three well-formed segments), kid, alg, sig (the     *)
(* signature verifies under the resolved key), exp ("future", "past" or    *)
(* "none" for a payload without exp), iss / aud (match the configuration). *)

GoodJwt == [fmt |-> TRUE, kid |-> "k1", alg |-> "RS256", sig |-> TRUE,
            exp |-> "future", iss |-> TRUE, aud |-> TRUE]

JwtOf(t) ==
  CASE t = "tokValid"    -> GoodJwt
    [] t = "tokNoExp"    -> [GoodJwt EXCEPT !.exp = "none"]
    [] t = "tokExpired"  -> [GoodJwt EXCEPT !.exp = "past"]
    [] t = "tokBadSig"   -> [GoodJwt EXCEPT !.sig = FALSE]
    [] t = "tokWrongIss" -> [GoodJwt EXCEPT !.iss = FALSE]
    [] t = "tokWrongAud" -> [GoodJwt EXCEPT !.aud = FALSE]
    [] t = "tokNoKid"    -> [GoodJwt EXCEPT !.kid = NULL]
    [] t = "tokHS256"    -> [GoodJwt EXCEPT !.alg = "HS256"]
    [] OTHER             -> [GoodJwt EXCEPT !.fmt = FALSE]

\* the credentials that decode as a JWT
JwtTokens == {"tokValid", "tokNoExp", "tokExpired", "tokBadSig", "tokWrongIss",
              "tokWrongAud", "tokNoKid", "tokHS256"}

\* faulty variant of jwtVerify: the algorithm of the header is not looked at
jwtVerifyAnyAlgorithm(j) ==
  IF ~j.sig               THEN [ok |-> FALSE, message |-> "invalid signature"]
  ELSE IF j.exp = "past"  THEN [ok |-> FALSE, message |-> "jwt expired"]
  ELSE IF ~j.aud          THEN [ok |-> FALSE, message |-> "jwt audience invalid"]
  ELSE IF ~j.iss          THEN [ok |-> FALSE, message |-> "jwt issuer invalid"]
  ELSE [ok |-> TRUE, message |-> ""]

\* tokenValidator.ts 119-137: jwt.verify(token, key, {issuer, audience, algorithms: ['RS256']}),
\* in jsonwebtoken's order of checks
jwtVerify(j) ==
  IF j.alg # "RS256"      THEN [ok |-> FALSE, message |-> "invalid algorithm"]
  ELSE IF ~j.sig          THEN [ok |-> FALSE, message |-> "invalid signature"]
  ELSE IF j.exp = "past"  THEN [ok |-> FALSE, message |-> "jwt expired"]
  ELSE IF ~j.aud          THEN [ok |-> FALSE, message |-> "jwt audience invalid"]
  ELSE IF ~j.iss          THEN [ok |-> FALSE, message |-> "jwt issuer invalid"]
  ELSE [ok |-> TRUE, message |-> ""]

\* tokenValidator.ts 104-137 on the decoded token j
verifyDecoded(j, keyOk, jv) ==
  IF ~j.fmt THEN [ok |-> FALSE, message |-> "Invalid token format", exp |-> "none"]
  ELSE IF Falsy(j.kid)
    THEN [ok |-> FALSE, message |-> "No key ID (kid) found in token header", exp |-> "none"]
  ELSE IF ~keyOk
    THEN [ok |-> FALSE, message |-> "Unable to find a signing key", exp |-> "none"]
  ELSE [ok |-> jv.ok, message |-> jv.message, exp |-> j.exp]

\* tokenValidator.ts 93-142.  keyOk: whether getSigningKey resolved a key
\* (the remote key set answered and holds the kid).
verifyToken(t, keyOk) ==
  The({verifyDecoded(j, keyOk, jwtVerify(j)) : j \in {JwtOf(t)}})

\* faulty variant of IncludesExpired: every jsonwebtoken "jwt ..." error counts as expiry
IncludesExpiredAny(message) ==
  message \in {"jwt expired", "jwt audience invalid", "jwt issuer invalid"}

\* String.prototype.includes("expired") on the error messages above
IncludesExpired(message) == message = "jwt expired"

-----------------------------------------------------------------------------
(* Session registry (the mcp module: createSseTransport, getTransport,     *)
(* removeTransport).  transports maps a sessionId to its connection        *)
(* handle; handles are the request slots 1..MaxRequests.                   *)

SidPool == <<"s1", "s2", "s3", "s4", "s5", "s6">>
NoHandle == 0

\* the identifier the n-th generated session gets: fresh, never one generated before
FreshSid(n) == SidPool[n]

\* register: the registry after createSseTransport stored the new transport
createSseTransport(tr, sid, h) ==
  [s \in DOMAIN tr \cup {sid} |-> IF s = sid THEN h ELSE tr[s]]

\* lookup
getTransport(tr, sid) == IF sid \in DOMAIN tr THEN tr[sid] ELSE NoHandle

\* faulty variant of removeTransport: the entry is kept
removeTransportKeep(tr, sid) == tr

\* remove (idempotent)
removeTransport(tr, sid) == [s \in DOMAIN tr \ {sid} |-> tr[s]]

-----------------------------------------------------------------------------
(* Auth gate (middleware/auth).  tr: the session registry.                 *)

WELL_KNOWN == <<"/.well-known/">>

\* faulty variant of Exempt: preflight requests are not exempted
ExemptNoOptions(r) ==
  \/ Includes(r.url, WELL_KNOWN)
  \/ r.url = <<"/ping">>

\* faulty variant of Exempt: the discovery paths are not exempt
ExemptNoDiscovery(r) ==
  \/ r.method = "OPTIONS"
  \/ r.url = <<"/ping">>

\* auth.ts 114-118 and 200-204
Exempt(r) ==
  \/ Includes(r.url, WELL_KNOWN)
  \/ r.method = "OPTIONS"
  \/ r.url = <<"/ping">>

\* faulty variant of SessionShortcut: the registry is not asked for the session
SessionShortcutAnyId(r, tr) ==
  /\ StartsWith(r.url, <<"/messages">>)
  /\ Includes(r.url, <<"sessionId", "=">>)
  /\ ~Falsy(SearchParamsGet(r.url, "sessionId"))

\* faulty variant of SessionShortcut: the parameter is read under another name
SessionShortcutSnake(r, tr) ==
  /\ StartsWith(r.url, <<"/messages">>)
  /\ Includes(r.url, <<"sessionId", "=">>)
  /\ ~Falsy(SearchParamsGet(r.url, "session_id"))
  /\ getTransport(tr, SearchParamsGet(r.url, "session_id")) # NoHandle

\* faulty variant of SessionShortcut: a registered session admits no request
SessionShortcutOff(r, tr) == FALSE

\* auth.ts 123-138 and 209-224
SessionShortcut(r, tr) ==
  /\ StartsWith(r.url, <<"/messages">>)
  /\ Includes(r.url, <<"sessionId", "=">>)
  /\ ~Falsy(SearchParamsGet(r.url, "sessionId"))
  /\ getTransport(tr, SearchParamsGet(r.url, "sessionId")) # NoHandle

\* the response bodies, as <<text, detail>>
SimpleNoToken == <<"Unauthorized: No valid token provided", "">>
SimpleInvalid(message) == <<"Unauthorized: Invalid token: ", message>>
Simple500 == <<"Internal Server Error", "">>
AuthNoToken == <<"No valid token provided for request", "">>
AuthExpired == <<"Unauthorized - Token expired", "">>
AuthFailed(message) == <<"Token verification failed: ", message>>
Auth500 == <<"Internal Server Error during authentication", "">>
NoBody == <<"", "">>

\* What one invocation of a gate has done so far.
\*   out: "next" (continuation invoked), "respond" (response written and ended),
\*        "verify" (suspended in await verifyToken), "none" (returned without either)
\*   via: the rule that decided; extracted: extractToken was called;
\*   token, source: its result
Decision(out, st, bd, via, e) ==
  [out |-> out, status |-> st, body |-> bd, via |-> via,
   token |-> e.token, source |-> e.source, extracted |-> e.consulted # {}]

NoExtract == [token |-> NULL, source |-> "none", consulted |-> {}]

\* faulty variant of handleUnauthorized: the request is answered with 403
handleUnauthorizedForbidden(r, d, bd) ==
  IF Includes(r.url, WELL_KNOWN)
    THEN [d EXCEPT !.out = "none"]
    ELSE [d EXCEPT !.out = "respond", !.status = 403, !.body = bd]

\* auth.ts 30-43
handleUnauthorized(r, d, bd) ==
  IF Includes(r.url, WELL_KNOWN)
    THEN [d EXCEPT !.out = "none"]
    ELSE [d EXCEPT !.out = "respond", !.status = 401, !.body = bd]

\* faulty variant of simpleAuthCredential: a missing token is not answered with 401
simpleAuthCredentialLax(e, validateToken) ==
  IF e.token = NonString THEN Decision("respond", 500, Simple500, "credential", e)
  ELSE IF validateToken THEN Decision("verify", 0, NoBody, "credential", e)
  ELSE Decision("next", 0, NoBody, "credential", e)

\* auth.ts 229-246, 276-295 and 296-300: simpleAuthMiddleware on the extracted token e
\* (token.trim() throws on a token that is not a string: the outer catch answers 500)
simpleAuthCredential(e, validateToken) ==
  IF e.token = NonString THEN Decision("respond", 500, Simple500, "credential", e)
  ELSE IF Falsy(e.token) \/ Trim(e.token) = ""
    THEN Decision("respond", 401, SimpleNoToken, "credential", e)
  ELSE IF validateToken THEN Decision("verify", 0, NoBody, "credential", e)
  ELSE Decision("next", 0, NoBody, "credential", e)

\* auth.ts 192-245 and 276-295: simpleAuthMiddleware up to the await of verifyToken
simpleAuthSync(r, tr, validateToken) ==
  IF Exempt(r) THEN Decision("next", 0, NoBody, "exempt", NoExtract)
  ELSE IF SessionShortcut(r, tr) THEN Decision("next", 0, NoBody, "session", NoExtract)
  ELSE The({simpleAuthCredential(e, validateToken) : e \in {extractToken(r)}})

\* auth.ts 140-154 and 179-185: authMiddleware on the extracted token e
authCredential(r, e) ==
  IF e.token = NonString THEN Decision("respond", 500, Auth500, "credential", e)
  ELSE IF Falsy(e.token) \/ Trim(e.token) = ""
    THEN handleUnauthorized(r, Decision("none", 0, NoBody, "credential", e), AuthNoToken)
  ELSE Decision("verify", 0, NoBody, "credential", e)

\* auth.ts 107-154: authMiddleware up to the await of verifyToken
authSync(r, tr) ==
  IF Exempt(r) THEN Decision("next", 0, NoBody, "exempt", NoExtract)
  ELSE IF SessionShortcut(r, tr) THEN Decision("next", 0, NoBody, "session", NoExtract)
  ELSE The({authCredential(r, e) : e \in {extractToken(r)}})

\* auth.ts 252-275 and 293-295: simpleAuthMiddleware after verifyToken settled.
\* The success branch formats decodedToken.exp with toISOString, which throws
\* on a payload without exp; the throw lands in the same catch.
simpleAuthVerified(r, d, v) ==
  IF v.ok /\ v.exp # "none" THEN [d EXCEPT !.out = "next"]
  ELSE IF v.ok THEN [d EXCEPT !.out = "respond", !.status = 401,
                              !.body = SimpleInvalid("Invalid time value")]
  ELSE [d EXCEPT !.out = "respond", !.status = 401, !.body = SimpleInvalid(v.message)]

\* auth.ts 154-178: authMiddleware after verifyToken settled
authVerified(r, d, v) ==
  IF v.ok /\ v.exp # "none" THEN [d EXCEPT !.out = "next"]
  ELSE IF v.ok THEN handleUnauthorized(r, d, AuthFailed("Invalid time value"))
  ELSE IF IncludesExpired(v.message) THEN handleUnauthorized(r, d, AuthExpired)
  ELSE handleUnauthorized(r, d, AuthFailed(v.message))

-----------------------------------------------------------------------------
(* Router (server/router) and the server's configuration (index.ts).       *)

\* index.ts 21-25: the routes in registration order ("*" as last token: a trailing
\* wildcard; regexp: the path is a RegExp, not a string)
Routes ==
  << [method |-> "GET",  path |-> <<"/.well-known/", "oauth-protected-resource">>,
      regexp |-> FALSE, handler |-> "protectedResourceHandler"],
     [method |-> "GET",  path |-> <<"/sse">>, regexp |-> FALSE,
      handler |-> "sseConnectionHandler"],
     [method |-> "POST", path |-> <<"/messages", "*">>, regexp |-> FALSE,
      handler |-> "sseMessagesHandler"] >>

\* faulty variant of ValidateToken: the gate is installed without validation
ValidateTokenOff == FALSE

\* index.ts 19: simpleAuthMiddleware is installed with validateToken = true
ValidateToken == TRUE

\* RegExp.prototype.test(url) for a pattern without flags: the pattern's tokens occur
\* in the URL, at its start when the pattern begins with "^"
RegExpTest(pattern, url) ==
  IF pattern # <<>> /\ Head(pattern) = "^" THEN StartsWith(url, Tail(pattern))
  ELSE Includes(url, pattern)

\* router.ts 72-90
RouteMatches(route, method, url) ==
  /\ route.method = "ALL" \/ route.method = method
  /\ IF route.regexp THEN RegExpTest(route.path, url)
     ELSE IF route.path = <<"*">> THEN TRUE
     ELSE IF route.path # <<>> /\ route.path[Len(route.path)] = "*"
       THEN StartsWith(url, SubSeq(route.path, 1, Len(route.path) - 1))
     ELSE route.path = url

\* faulty variant of MatchRouteIn: the last matching route is taken
MatchRouteInLast(routes, method, url) ==
  IF \E i \in 1..Len(routes) : RouteMatches(routes[i], method, url)
    THEN CHOOSE i \in 1..Len(routes) :
           /\ RouteMatches(routes[i], method, url)
           /\ \A j \in (i + 1)..Len(routes) : ~RouteMatches(routes[j], method, url)
    ELSE 0

\* faulty variant of MatchRouteIn: the first route is taken whether it matches or not
MatchRouteInAny(routes, method, url) == IF routes # <<>> THEN 1 ELSE 0

\* router.ts 71-111 on the registered routes: index of the first matching route,
\* 0 when none matches
MatchRouteIn(routes, method, url) ==
  IF \E i \in 1..Len(routes) : RouteMatches(routes[i], method, url)
    THEN CHOOSE i \in 1..Len(routes) :
           /\ RouteMatches(routes[i], method, url)
           /\ \A j \in 1..(i - 1) : ~RouteMatches(routes[j], method, url)
    ELSE 0

\* router.ts 71-111 on the server's routes
MatchRoute(method, url) == MatchRouteIn(Routes, method, url)

-----------------------------------------------------------------------------
(* The server: requests arriving on connections.                           *)

Slots == 1..MaxRequests

Rq(m, u, a, c, ct, b) ==
  [method |-> m, url |-> u, authorization |-> a, cookie |-> c,
   contentType |-> ct, bodyToken |-> b]

NoReq == Rq("", <<>>, <<>>, <<>>, <<>>, NULL)

Bearer(t) == <<"Bearer ", t>>

\* the session identifiers a client may name
ClientSids == {FreshSid(i) : i \in 1..MaxSessions}

\* the requests clients send to the server
ServerRequests ==
       {Rq("GET", <<"/sse">>, a, <<>>, <<>>, NULL) :
          a \in {<<>>, Bearer("tokValid"), Bearer("tokExpired")}}
  \cup {Rq("GET", <<"/sse">>, <<>>, <<"access_token", "=", "tokValid">>, <<>>, NULL),
        Rq("GET", <<"/sse", "?", "access_token", "=", "tokValid">>, <<>>, <<>>, <<>>, NULL),
        Rq("GET", <<"/.well-known/", "oauth-protected-resource">>, <<>>, <<>>, <<>>, NULL),
        Rq("POST", <<"/messages", "?", "x", "=", "/.well-known/", "&", "sessionId", "=", FreshSid(1)>>,
           <<>>, <<>>, <<>>, NULL)}
  \cup {Rq("POST", <<"/messages", "?", "sessionId", "=", sid>>, <<>>, <<>>, <<>>, NULL) :
          sid \in ClientSids}
  \cup {Rq("POST", <<"/messages", "?", "sessionId", "=", FreshSid(1)>>, Bearer("tokValid"),
           <<>>, <<>>, NULL)}

Set(f, r, v) == [f EXCEPT ![r] = v]

\* slot r holds a request in flight: position p, request rq (kept while the gate is
\* suspended), status st, writableEnded end, connection open op, close listener lsn,
\* verification result ver, handle tg a posted message is handed to
SlotIs(r, p, rq, st, end, op, lsn, ver, tg) ==
  /\ pc' = Set(pc, r, p)
  /\ req' = Set(req, r, rq)
  /\ status' = Set(status, r, st)
  /\ ended' = Set(ended, r, end)
  /\ open' = Set(open, r, op)
  /\ listener' = Set(listener, r, lsn)
  /\ verified' = Set(verified, r, ver)
  /\ target' = Set(target, r, tg)

\* slot r is released: its request is over and its connection is gone
Release(r) == SlotIs(r, "idle", NoReq, 0, FALSE, FALSE, NULL, FALSE, NoHandle)

\* the request of slot r is over (response written and ended, or left to the caller);
\* its connection is released
Done(r) ==
  /\ Release(r)
  /\ UNCHANGED <<transports, sidCount, regLog>>

\* the latest server step completed no response
NoAnswer == [req |-> NoReq, status |-> 0, by |-> "none", handle |-> NoHandle]

\* the server step answers no request
Silent == last' = NoAnswer

\* the request rq of slot r is answered with status st by the gate, a handler or the
\* transport; handle: the connection handle a posted message was delivered to.  The
\* answer is kept for the client whose main runs; the anonymous clients of the server
\* keep none
Responded(r, rq, st, by, handle) ==
  /\ Done(r)
  /\ last' = IF cl.state = "init" THEN NoAnswer
             ELSE [req |-> rq, status |-> st, by |-> by, handle |-> handle]

\* routes/protected-resource.ts 11-35
protectedResourceHandler(r, rq) == Responded(r, rq, 200, "handler", NoHandle)

\* routes/sse.ts 171-193: sseConnectionHandler up to the await of connect: registers
\* the transport and attaches the close listener.  op: the connection is still open
sseConnectionHandler(r, op, ver) ==
  /\ sidCount < MaxSessions
  /\ SlotIs(r, "connecting", NoReq, 0, FALSE, op, FreshSid(sidCount + 1), ver, NoHandle)
  /\ transports' = createSseTransport(transports, FreshSid(sidCount + 1), r)
  /\ sidCount' = sidCount + 1
  /\ regLog' = Append(regLog, <<"register", FreshSid(sidCount + 1)>>)
  /\ Silent

\* faulty variant of sseMessagesHandler: a missing transport is answered like a missing
\* sessionId
sseMessagesHandlerBadRequest(r, rq, op, ver) ==
  IF Falsy(SearchParamsGet(rq.url, "sessionId"))
       \/ getTransport(transports, SearchParamsGet(rq.url, "sessionId")) = NoHandle
    THEN Responded(r, rq, 400, "handler", NoHandle)
  ELSE /\ SlotIs(r, "posting", NoReq, 0, FALSE, op, NULL, ver,
                 getTransport(transports, SearchParamsGet(rq.url, "sessionId")))
       /\ UNCHANGED <<transports, sidCount, regLog>>
       /\ Silent

\* routes/sse.ts 215-252: sseMessagesHandler up to the await of handlePostMessage:
\* 400 without sessionId, 404 without transport, else the message goes to the transport
sseMessagesHandler(r, rq, op, ver) ==
  IF Falsy(SearchParamsGet(rq.url, "sessionId"))
    THEN Responded(r, rq, 400, "handler", NoHandle)
  ELSE IF getTransport(transports, SearchParamsGet(rq.url, "sessionId")) = NoHandle
    THEN Responded(r, rq, 404, "handler", NoHandle)
  ELSE /\ SlotIs(r, "posting", NoReq, 0, FALSE, op, NULL, ver,
                 getTransport(transports, SearchParamsGet(rq.url, "sessionId")))
       /\ UNCHANGED <<transports, sidCount, regLog>>
       /\ Silent

\* router.ts 96-98: the terminal handler of the matched route
Handler(r, rq, idx, op, ver) ==
  CASE Routes[idx].handler = "protectedResourceHandler" -> protectedResourceHandler(r, rq)
    [] Routes[idx].handler = "sseConnectionHandler" -> sseConnectionHandler(r, op, ver)
    [] Routes[idx].handler = "sseMessagesHandler" -> sseMessagesHandler(r, rq, op, ver)

\* the history holds a remove of sid
Removed(log, sid) == \E i \in 1..Len(log) : log[i] = <<"remove", sid>>

\* router.ts 92-110 with auth.ts 192-245: the matched route idx is dispatched through
\* the gate, whose decision up to its first suspension is d
Dispatch(r, rq, idx, d) ==
  IF idx = 0 THEN Responded(r, rq, 0, "nobody", NoHandle)
  ELSE IF d.out = "respond" THEN Responded(r, rq, d.status, "gate", NoHandle)
  ELSE IF d.out = "verify"
    THEN /\ SlotIs(r, "verifying", rq, 0, FALSE, TRUE, NULL, FALSE, NoHandle)
         /\ UNCHANGED <<transports, sidCount, regLog>>
         /\ Silent
  ELSE Handler(r, rq, idx, TRUE, FALSE)

\* router.ts 60-114: a request arrives on a new connection (the lowest free slot) and is
\* handled up to its first suspension (await verifyToken or await connect) or to its end
Received(r, rq) ==
  /\ pc[r] = "idle"
  /\ \A q \in Slots : q < r => pc[q] # "idle"
  /\ \E idx \in {MatchRoute(rq.method, rq.url)},
        d \in {simpleAuthSync(rq, transports, ValidateToken)},
        gone \in {Removed(regLog, SearchParamsGet(rq.url, "sessionId"))} :
       /\ Dispatch(r, rq, idx, d)
       /\ stale' = (stale \/ (idx # 0 /\ d.via = "session" /\ gone))
       /\ refused' = (refused \/ (idx # 0 /\ d.via # "session" /\ gone))

\* a request of any client arrives
Receive(r, rq) ==
  /\ Received(r, rq)
  /\ UNCHANGED <<g, ext, rt, fl, dc, vf, cl>>

\* auth.ts 252-275, 293-295 and router.ts 131-136: the gate's decision d after verifyToken
\* settled with v; on success the continuation runs the terminal handler unless the
\* response was already ended
Resume(r, d, v) ==
  IF d.out = "respond" THEN Responded(r, req[r], d.status, "gate", NoHandle)
  ELSE IF ~ended[r]
    THEN Handler(r, req[r], MatchRoute(req[r].method, req[r].url), open[r], v.ok)
  ELSE Done(r) /\ Silent

\* auth.ts 246-295: verifyToken settled for the request of slot r
Verified(r, keyOk) ==
  /\ pc[r] = "verifying"
  /\ \E e \in {extractToken(req[r])} :
       \E v \in {verifyToken(e.token, keyOk)} :
         \E d \in {simpleAuthVerified(req[r], Decision("verify", 0, NoBody, "credential", e), v)} :
           Resume(r, d, v)
  /\ UNCHANGED <<stale, refused>>

VerifyDone(r, keyOk) ==
  /\ Verified(r, keyOk)
  /\ UNCHANGED <<g, ext, rt, fl, dc, vf, cl>>

\* the connection of slot r is gone and the registry holds no session of it
Gone(r, op, tr) == ~op /\ \A sid \in DOMAIN tr : tr[sid] # r

\* routes/sse.ts 196-206: connect and the first send resolved
Connected(r) ==
  /\ pc[r] = "connecting"
  /\ IF Gone(r, open[r], transports) THEN Release(r)
     ELSE SlotIs(r, "streaming", NoReq, 200, ended[r], open[r], listener[r], verified[r],
                 NoHandle)
  /\ Silent
  /\ UNCHANGED <<transports, sidCount, regLog, stale, refused>>

ConnectOk(r) ==
  /\ Connected(r)
  /\ UNCHANGED <<g, ext, rt, fl, dc, vf, cl>>

\* routes/sse.ts 207-212: connect or send rejected
ConnectFailed(r) ==
  /\ pc[r] = "connecting"
  /\ IF Gone(r, open[r], transports) THEN Release(r)
     ELSE SlotIs(r, "failed", NoReq, IF ended[r] THEN status[r] ELSE 500, TRUE,
                 open[r], listener[r], verified[r], NoHandle)
  /\ Silent
  /\ UNCHANGED <<transports, sidCount, regLog, stale, refused>>

ConnectFail(r) ==
  /\ ConnectFailed(r)
  /\ UNCHANGED <<g, ext, rt, fl, dc, vf, cl>>

\* routes/sse.ts 252-259: handlePostMessage settled (202 written by the transport, or
\* 500 by the handler when it rejected and the response is not ended)
Posted(r, posted) ==
  /\ pc[r] = "posting"
  /\ IF posted THEN Responded(r, req[r], 202, "transport", target[r])
     ELSE Responded(r, req[r], 500, "handler", NoHandle)
  /\ UNCHANGED <<stale, refused>>

PostDone(r, posted) ==
  /\ Posted(r, posted)
  /\ UNCHANGED <<g, ext, rt, fl, dc, vf, cl>>

\* the registry after the close listener of slot r ran, if one is attached
AfterClose(r) ==
  IF listener[r] # NULL THEN removeTransport(transports, listener[r]) ELSE transports

\* routes/sse.ts 190-193: the connection of slot r closes; the response emits "close"
\* once, and the listener, if one is attached by then, removes the session
Closed(r) ==
  /\ open[r]
  /\ transports' = AfterClose(r)
  /\ regLog' = IF listener[r] # NULL THEN Append(regLog, <<"remove", listener[r]>>) ELSE regLog
  /\ IF pc[r] \in {"streaming", "failed"} /\ Gone(r, FALSE, AfterClose(r)) THEN Release(r)
     ELSE SlotIs(r, pc[r], req[r], status[r], ended[r], FALSE, listener[r], verified[r],
                 target[r])
  /\ Silent
  /\ UNCHANGED <<sidCount, stale, refused>>

Close(r) ==
  /\ Closed(r)
  /\ UNCHANGED <<g, ext, rt, fl, dc, vf, cl>>

\* no call of Router.handleRequest, startOAuthFlow or decodeToken was made
RtIdle == [state |-> "idle", acts |-> <<>>]

\* an error is <<message, status, detail>>; this one stands for no error
NoError == <<"", 0, "">>

\* state: the flow's position; trail: the positions passed; log: the steps executed and
\* the answers received; listen: the callback listener ("none", "pending", "listening",
\* "closed"); alive: a browser connection to the listener is kept alive; settled: the
\* promise of openAuthorizationWindow; cbs: the callback requests handled; posts: the
\* codes sent to the token endpoint
FlIdle ==
  [state |-> "Idle", trail |-> <<"Idle">>, log |-> <<>>, error |-> NoError,
   returned |-> NULL, listen |-> "none", alive |-> FALSE, settled |-> "none",
   code |-> NULL, rejection |-> NoError, cbs |-> <<>>, posts |-> <<>>]

\* one call of decodeToken: its input (str: the argument is a string; chars: its text) and
\* what it gave back; raised: an exception left the function
DcIdle ==
  [called |-> FALSE, input |-> [str |-> FALSE, chars |-> <<>>], header |-> NULL,
   payload |-> NULL, hasSignature |-> FALSE, raised |-> FALSE]

\* no call of verifyToken was made.  state: "idle", "resolving" (suspended in await
\* getSigningKey), "done"; jwt: what the token decodes to; log: the steps taken
VfIdle ==
  [state |-> "idle", jwt |-> GoodJwt, keyOk |-> FALSE, log |-> <<>>,
   result |-> [ok |-> FALSE, message |-> "", exp |-> "none"],
   client |-> NULL, created |-> 0, calls |-> 0, first |-> NULL, lookups |-> <<>>]

\* the client's main has not begun.  state: its position; token: the access token the
\* flow returned; jwt: that token as the server's verifyToken reads it; sid: the
\* session id the endpoint event announced; posts: the messages posted; hist: what the
\* client was answered, in order
ClIdle ==
  [state |-> "init", token |-> NULL, jwt |-> NULL, sid |-> NULL, posts |-> 0,
   hist |-> <<>>]

NoVerify == [called |-> FALSE, keyOk |-> FALSE, ok |-> FALSE, message |-> "", exp |-> "none"]

GIdle == [state |-> "idle", kind |-> "", req |-> NoReq,
          d |-> Decision("none", 0, NoBody, "", NoExtract), verify |-> NoVerify]

ExtIdle == [called |-> FALSE, req |-> NoReq, res |-> NoExtract]

InitServer ==
  /\ transports = [s \in {} |-> NoHandle]
  /\ sidCount = 0
  /\ req = [r \in Slots |-> NoReq]
  /\ pc = [r \in Slots |-> "idle"]
  /\ status = [r \in Slots |-> 0]
  /\ ended = [r \in Slots |-> FALSE]
  /\ open = [r \in Slots |-> FALSE]
  /\ listener = [r \in Slots |-> NULL]
  /\ verified = [r \in Slots |-> FALSE]
  /\ target = [r \in Slots |-> NoHandle]
  /\ regLog = <<>>
  /\ stale = FALSE
  /\ refused = FALSE
  /\ g = GIdle
  /\ ext = ExtIdle
  /\ rt = RtIdle
  /\ fl = FlIdle
  /\ dc = DcIdle
  /\ vf = VfIdle
  /\ last = NoAnswer

\* the state after construction; no client's main runs
Init ==
  /\ InitServer
  /\ cl = ClIdle

Next ==
  \/ \E r \in Slots, rq \in ServerRequests : Receive(r, rq)
  \/ \E r \in Slots, keyOk \in BOOLEAN : VerifyDone(r, keyOk)
  \/ \E r \in Slots : ConnectOk(r)
  \/ \E r \in Slots : ConnectFail(r)
  \/ \E r \in Slots, posted \in BOOLEAN : PostDone(r, posted)
  \/ \E r \in Slots : Close(r)

Spec == Init /\ [][Next]_vars

\* the event loop settles every pending promise: verifyToken, connect and
\* handlePostMessage of each request in flight come to an end; clients need not send
\* requests and connections need not close
Settles ==
  \A r \in Slots :
    /\ WF_vars(\E keyOk \in BOOLEAN : VerifyDone(r, keyOk))
    /\ WF_vars(ConnectOk(r) \/ ConnectFail(r))
    /\ WF_vars(\E posted \in BOOLEAN : PostDone(r, posted))

\* the server with every pending promise settling
SpecLive == Init /\ [][Next]_vars /\ Settles

\* a client is watched: the server's answers are kept in last
ClWatching == [ClIdle EXCEPT !.state = "watching"]

InitAnswers ==
  /\ InitServer
  /\ cl = ClWatching

\* the server as in Spec, with the answer of each step kept
SpecAnswers == InitAnswers /\ [][Next]_vars

-----------------------------------------------------------------------------
(* The exported gates and extractToken, invoked directly on any request.   *)

MaxCalls == 4

GateKinds == {"simple", "simpleNoValidate", "auth"}

GateUrls ==
       {<<"/sse">>, <<"/ping">>, <<"/.well-known/", "oauth-protected-resource">>,
        <<"/other", "?", "sessionId", "=", FreshSid(1)>>,
        <<"/sse", "?", "access_token", "=", "tokBadSig">>,
        <<"/messages", "?", "x", "=", "/.well-known/">>}
  \cup {<<"/messages", "?", "sessionId", "=", sid>> : sid \in ClientSids \cup {"sX"}}

GateAuthorizations ==
       {<<>>, <<"bearer ", "tokValid">>, <<"Basic ", "abc">>, <<"Bearer ">>, <<"Bearer ", " ">>}
  \cup {Bearer(t) : t \in JwtTokens \cup {"garbage"}}

GateCookies ==
  {<<>>, <<"access_token", "=">>,
   <<"x", "=", "1", ";", " ", "access_token", "=", "tokExpired">>}

\* content type and body token
GateBodies ==
  {<<<<>>, NULL>>, <<<<"application/json">>, "tokWrongAud">>,
   <<<<"application/json">>, NonString>>, <<<<"text/plain">>, "tokValid">>}

\* every combination of credentials on one URL, a URL parameter against the
\* other credentials, and every URL and method with a few Authorization headers
GateRequests ==
       {Rq("POST", <<"/sse">>, a, c, b[1], b[2]) :
          a \in GateAuthorizations, c \in GateCookies, b \in GateBodies}
  \cup {Rq("POST", u, a, c, b[1], b[2]) :
          u \in {<<"/sse", "?", "access_token", "=", "tokBadSig">>,
                 <<"/sse", "?", "access_token", "=">>},
          a \in {<<>>, <<"Bearer ">>, Bearer("tokValid")}, c \in GateCookies,
          b \in GateBodies}
  \cup {Rq(m, u, a, <<>>, <<>>, NULL) :
          m \in {"GET", "POST", "OPTIONS"}, u \in GateUrls,
          a \in {<<>>, Bearer("tokValid"), Bearer("tokExpired")}}

\* the registries the gate may meet: any of the issued sessions still registered
GateRegistries ==
  {[s \in L |-> 1] : L \in SUBSET ClientSids}

\* the gate's synchronous part, by kind
GateSync(kind, rq, tr) ==
  CASE kind = "simple"           -> simpleAuthSync(rq, tr, TRUE)
    [] kind = "simpleNoValidate" -> simpleAuthSync(rq, tr, FALSE)
    [] kind = "auth"             -> authSync(rq, tr)

\* the gate's part after verifyToken settled, by kind
GateVerified(kind, rq, d, v) ==
  IF kind = "auth" THEN authVerified(rq, d, v) ELSE simpleAuthVerified(rq, d, v)

GateBegin(kind, rq, d) ==
  g' = [state |-> IF d.out = "verify" THEN "verifying" ELSE "done",
        kind |-> kind, req |-> rq, d |-> d, verify |-> NoVerify]

\* auth.ts 107-154 / 192-245: one of the gates is invoked on rq
GateCall(kind, rq) ==
  /\ g.state = "idle"
  /\ ~ext.called
  /\ \E d \in {GateSync(kind, rq, transports)} : GateBegin(kind, rq, d)
  /\ UNCHANGED <<transports, sidCount, req, pc, status, ended, open, listener,
                 verified, target, regLog, stale, refused, ext, rt, fl, dc, vf, cl, last>>

GateEnd(v, keyOk) ==
  g' = [g EXCEPT !.state = "done",
                 !.d = GateVerified(g.kind, g.req, g.d, v),
                 !.verify = [called |-> TRUE, keyOk |-> keyOk, ok |-> v.ok,
                             message |-> v.message, exp |-> v.exp]]

\* auth.ts 154-178 / 252-275: the awaited verifyToken settles
GateSettle(keyOk) ==
  /\ g.state = "verifying"
  /\ \E v \in {verifyToken(g.d.token, keyOk)} : GateEnd(v, keyOk)
  /\ UNCHANGED <<transports, sidCount, req, pc, status, ended, open, listener,
                 verified, target, regLog, stale, refused, ext, rt, fl, dc, vf, cl, last>>

\* auth.ts 48-102: extractToken is invoked on rq
ExtractCall(rq) ==
  /\ g.state = "idle"
  /\ ~ext.called
  /\ \E e \in {extractToken(rq)} : ext' = [called |-> TRUE, req |-> rq, res |-> e]
  /\ UNCHANGED <<transports, sidCount, req, pc, status, ended, open, listener,
                 verified, target, regLog, stale, refused, g, rt, fl, dc, vf, cl, last>>

InitGate ==
  /\ transports \in GateRegistries
  /\ sidCount = MaxSessions
  /\ req = [r \in Slots |-> NoReq]
  /\ pc = [r \in Slots |-> "idle"]
  /\ status = [r \in Slots |-> 0]
  /\ ended = [r \in Slots |-> FALSE]
  /\ open = [r \in Slots |-> FALSE]
  /\ listener = [r \in Slots |-> NULL]
  /\ verified = [r \in Slots |-> FALSE]
  /\ target = [r \in Slots |-> NoHandle]
  /\ regLog = <<>>
  /\ stale = FALSE
  /\ refused = FALSE
  /\ g = GIdle
  /\ ext = ExtIdle
  /\ rt = RtIdle
  /\ fl = FlIdle
  /\ dc = DcIdle
  /\ vf = VfIdle
  /\ cl = ClIdle
  /\ last = NoAnswer

NextGate ==
  \/ \E kind \in GateKinds, rq \in GateRequests : GateCall(kind, rq)
  \/ \E keyOk \in BOOLEAN : GateSettle(keyOk)
  \/ \E rq \in GateRequests : ExtractCall(rq)

SpecGate == InitGate /\ [][NextGate]_vars

-----------------------------------------------------------------------------
(* The registry's operations, called in any order.                         *)

RegistrySids == {FreshSid(i) : i \in 1..MaxCalls}

\* register
RegRegister(h) ==
  /\ Len(regLog) < MaxCalls
  /\ transports' = createSseTransport(transports, FreshSid(sidCount + 1), h)
  /\ sidCount' = sidCount + 1
  /\ regLog' = Append(regLog, <<"register", FreshSid(sidCount + 1)>>)
  /\ UNCHANGED <<req, pc, status, ended, open, listener, verified, target,
                 stale, refused, g, ext, rt, fl, dc, vf, cl, last>>

\* remove
RegRemove(sid) ==
  /\ Len(regLog) < MaxCalls
  /\ transports' = removeTransport(transports, sid)
  /\ regLog' = Append(regLog, <<"remove", sid>>)
  /\ UNCHANGED <<sidCount, req, pc, status, ended, open, listener, verified, target,
                 stale, refused, g, ext, rt, fl, dc, vf, cl, last>>

NextRegistry ==
  \/ \E h \in Slots : RegRegister(h)
  \/ \E sid \in RegistrySids : RegRemove(sid)

SpecRegistry == Init /\ [][NextRegistry]_vars

-----------------------------------------------------------------------------
(* Router.handleRequest on any routes and middleware (server/router).       *)
(* A middleware or handler is a script: the calls it makes, in order,       *)
(* "next" (its continuation, the promise dropped), "return next" (its       *)
(* continuation, the promise returned or awaited as its last statement),    *)
(* "end" (res.end) and "throw" (an error leaves it); the calls of the       *)
(* functions in flight interleave in any order.                             *)

MaxMiddleware == 2
MaxRoutes == 2

\* what a middleware may do with its continuation and the response
MwScripts ==
  {<<>>, <<"next">>, <<"next", "next">>, <<"end">>, <<"end", "next">>, <<"next", "end">>,
   <<"return next">>, <<"end", "return next">>, <<"throw">>, <<"next", "throw">>,
   <<"end", "throw">>}

\* what a terminal handler may do with the response
HandlerScripts == {<<>>, <<"end">>, <<"throw">>, <<"end", "throw">>}

\* all sequences over S of length at most n
SeqsUpTo(S, n) == UNION {[1..k -> S] : k \in 0..n}

RouterMethods == {"GET", "POST"}

RouterUrls == {<<"/a">>, <<"/a", "/b">>, <<"/c">>}

\* routes a router may hold: exact path, trailing wildcard, match-all, regular expressions
RoutePool ==
  {[method |-> "GET", path |-> <<"/a">>, regexp |-> FALSE, handler |-> "h"],
   [method |-> "ALL", path |-> <<"/a", "*">>, regexp |-> FALSE, handler |-> "h"],
   [method |-> "POST", path |-> <<"*">>, regexp |-> FALSE, handler |-> "h"],
   [method |-> "GET", path |-> <<"^", "/a">>, regexp |-> TRUE, handler |-> "h"],
   [method |-> "ALL", path |-> <<"/b">>, regexp |-> TRUE, handler |-> "h"]}

\* the middleware lists examined: at most one middleware does anything else than pass
\* the request on
MiddlewareLists ==
  {ms \in SeqsUpTo(MwScripts, MaxMiddleware) :
     Cardinality({i \in DOMAIN ms : ms[i] \notin {<<"next">>, <<"return next">>}}) <= 1}

\* the calls of handleRequest examined: any routes and request under at most one
\* middleware, and any middleware list on one route
RouterCalls ==
       {[routes |-> rs, mws |-> ms, hs |-> <<"end">>, method |-> m, url |-> u] :
          rs \in SeqsUpTo(RoutePool, MaxRoutes), ms \in {<<>>, << <<"next">> >>},
          m \in RouterMethods, u \in RouterUrls}
  \cup {[routes |-> << [method |-> "ALL", path |-> <<"*">>, regexp |-> FALSE,
                        handler |-> "h"] >>,
         mws |-> ms, hs |-> h, method |-> "GET", url |-> <<"/a">>] :
          ms \in MiddlewareLists, h \in HandlerScripts}

\* the functions in flight of one call: every middleware once, those after a twofold
\* continuation twice, and the handler
ActIds == 1..(2 * MaxMiddleware + 2)

\* status: the status written (0: none); caught: the catch of handleRequest ran;
\* rejected: the promise of handleRequest rejected; unhandled: rejections nobody
\* observes
RtCalled(c, idx) ==
  [state |-> "called", routes |-> c.routes, mws |-> c.mws, hs |-> c.hs,
   method |-> c.method, url |-> c.url, matched |-> idx, acts |-> <<>>,
   ended |-> FALSE, log |-> <<>>, status |-> 0, caught |-> FALSE, rejected |-> FALSE,
   unhandled |-> 0]

\* who awaits the promise of a function in flight: handleRequest, nobody, or the
\* function in flight with that number, which returned it
ByHandleRequest == 0
ByNobody == -1

\* router.ts 96-98 and 107: the terminal handler of the matched route is invoked
finalHandler(r, link) ==
  [r EXCEPT !.acts = Append(@, [who |-> Len(r.mws) + 1, todo |-> r.hs, link |-> link]),
            !.log = Append(@, <<"handler", r.matched>>)]

\* faulty variant of NextIndex: a middleware is skipped
NextIndexSkip(index) == index + 2

\* router.ts 134: the middleware the continuation of middleware index goes on with
NextIndex(index) == index + 1

\* faulty variant of ContinuationRuns: the response is not looked at
ContinuationRunsAlways(writableEnded) == TRUE

\* router.ts 133: the continuation goes on only while the response is not ended
ContinuationRuns(writableEnded) == ~writableEnded

\* router.ts 119-137: middleware index is invoked, or the terminal handler after the last
executeMiddlewareChain(r, index, link) ==
  IF index > Len(r.mws) THEN finalHandler(r, link)
  ELSE [r EXCEPT !.acts = Append(@, [who |-> index, todo |-> r.mws[index], link |-> link]),
                 !.log = Append(@, <<"start", index>>)]

\* router.ts 60-114: handleRequest finds the first matching route and starts the chain
\* (or, without middleware, the handler)
RouterCall(c) ==
  /\ rt.state = "idle"
  /\ \E idx \in {MatchRouteIn(c.routes, c.method, c.url)} :
       rt' = IF idx = 0 THEN RtCalled(c, idx)
             ELSE IF Len(c.mws) > 0
               THEN executeMiddlewareChain(RtCalled(c, idx), 1, ByHandleRequest)
             ELSE finalHandler(RtCalled(c, idx), ByHandleRequest)
  /\ UNCHANGED <<serverVars, fl, dc, vf, cl>>

\* the function in flight a makes its next call
Pending(a, call) ==
  /\ rt.state = "called"
  /\ a \in DOMAIN rt.acts
  /\ rt.acts[a].todo # <<>>
  /\ Head(rt.acts[a].todo) = call

\* rt after the function in flight a made its next call, logged as ev
Stepped(a, ev) ==
  [rt EXCEPT !.acts[a].todo = Tail(@), !.log = Append(@, ev)]

\* router.ts 131-136: the continuation of the function in flight a, its promise
\* awaited by link
Continuation(a, link) ==
  IF ContinuationRuns(rt.ended)
    THEN executeMiddlewareChain(Stepped(a, <<"next", rt.acts[a].who>>),
                                NextIndex(rt.acts[a].who), link)
  ELSE Stepped(a, <<"next", rt.acts[a].who>>)

\* router.ts 131-136: a middleware invokes its continuation and drops the promise
MwNext(a) ==
  /\ Pending(a, "next")
  /\ rt' = Continuation(a, ByNobody)
  /\ UNCHANGED <<serverVars, fl, dc, vf, cl>>

\* router.ts 131-136: a middleware invokes its continuation and returns the promise
MwReturnNext(a) ==
  /\ Pending(a, "return next")
  /\ rt' = Continuation(a, a)
  /\ UNCHANGED <<serverVars, fl, dc, vf, cl>>

\* a middleware or the handler ends the response (res.end), with the status it chose
\* (200 stands for it)
ResEnd(a) ==
  /\ Pending(a, "end")
  /\ rt' = [Stepped(a, <<"end", rt.acts[a].who>>) EXCEPT
              !.ended = TRUE, !.status = IF rt.ended THEN @ ELSE 200]
  /\ UNCHANGED <<serverVars, fl, dc, vf, cl>>

\* who observes a rejection of the function in flight a: the promise passes through
\* the functions that returned it
RECURSIVE Observer(_, _)
Observer(r, a) ==
  IF r.acts[a].link \in {ByHandleRequest, ByNobody} THEN r.acts[a].link
  ELSE Observer(r, r.acts[a].link)

\* router.ts 99-104: the catch of handleRequest around the middleware chain
ChainCaught(r) ==
  [r EXCEPT !.caught = TRUE, !.ended = TRUE,
            !.status = IF r.ended THEN @ ELSE 500,
            !.log = Append(@, <<"catch", IF r.ended THEN 0 ELSE 500>>)]

\* router.ts 94-108: where an error leaving the function in flight a ends: in the catch
\* around the chain, in the promise of handleRequest when there is no middleware, or
\* in a promise nobody observes
Raised(r, a) ==
  IF Observer(r, a) = ByNobody
    THEN [r EXCEPT !.unhandled = @ + 1, !.log = Append(@, <<"unhandled", r.acts[a].who>>)]
  ELSE IF Len(r.mws) > 0 THEN ChainCaught(r)
  ELSE [r EXCEPT !.rejected = TRUE, !.log = Append(@, <<"rejected", r.acts[a].who>>)]

\* a middleware or the handler throws, or the promise it returned rejects
MwThrow(a) ==
  /\ Pending(a, "throw")
  /\ rt' = Raised(Stepped(a, <<"throw", rt.acts[a].who>>), a)
  /\ UNCHANGED <<serverVars, fl, dc, vf, cl>>

\* the function in flight a has made all its calls, and so has the function whose
\* promise it returned
RECURSIVE Finished(_, _)
Finished(r, a) ==
  /\ r.acts[a].todo = <<>>
  /\ \A b \in DOMAIN r.acts : r.acts[b].link = a => Finished(r, b)

\* router.ts 60-114: what the promise of handleRequest has settled to
HandleRequestResult(r) ==
  IF r.state # "called" THEN "none"
  ELSE IF r.matched = 0 THEN "false"
  ELSE IF r.rejected THEN "rejected"
  ELSE IF r.caught \/ Finished(r, 1) THEN "true"
  ELSE "pending"

NextRouter ==
  \/ \E c \in RouterCalls : RouterCall(c)
  \/ \E a \in ActIds : MwNext(a)
  \/ \E a \in ActIds : MwReturnNext(a)
  \/ \E a \in ActIds : ResEnd(a)
  \/ \E a \in ActIds : MwThrow(a)

SpecRouter == Init /\ [][NextRouter]_vars

-----------------------------------------------------------------------------
(* The client's authorization flow (mcp-client auth/oauth): startOAuthFlow   *)
(* and the callback listener of openAuthorizationWindow.                     *)
(* An HTTP answer is [status, body]; bodies are "{...}" for JSON objects     *)
(* holding the named fields and other text for what is not JSON.  An error   *)
(* is <<message, status, detail>> (status 0 and detail "" when it has none). *)

MaxCallbacks == 2

\* fetch: Response.ok
ResponseOk(st) == st >= 200 /\ st <= 299

\* Response.json(): the body parses as JSON
IsJson(body) == body \in {"{authorization_servers}", "{endpoints}", "{access_token}", "{}"}

\* oauth.ts 59-71 and 22: fetchResourceMetadata on the answer, then the destructuring of
\* authorization_servers (a TypeError when the field is missing)
fetchResourceMetadata(ans) ==
  IF ~ResponseOk(ans.status)
    THEN [ok |-> FALSE, error |-> <<"Failed to access protected resource", ans.status, "">>]
  ELSE IF ~IsJson(ans.body) THEN [ok |-> FALSE, error |-> <<"SyntaxError", 0, "">>]
  ELSE IF ans.body # "{authorization_servers}"
    THEN [ok |-> FALSE, error |-> <<"TypeError", 0, "">>]
  ELSE [ok |-> TRUE, error |-> NoError]

\* faulty variant of fetchAuthServerMetadata: the answer is not examined
fetchAuthServerMetadataNoCheck(ans) == [ok |-> TRUE, error |-> NoError]

\* oauth.ts 76-93 and 98-105: fetchAuthServerMetadata on the answer, then new URL on the
\* authorization endpoint (a TypeError when the field is missing)
fetchAuthServerMetadata(ans) ==
  IF ~ResponseOk(ans.status)
    THEN [ok |-> FALSE,
          error |-> <<"Failed to fetch authorization server metadata", ans.status, "">>]
  ELSE IF ~IsJson(ans.body) THEN [ok |-> FALSE, error |-> <<"SyntaxError", 0, "">>]
  ELSE IF ans.body # "{endpoints}" THEN [ok |-> FALSE, error |-> <<"TypeError", 0, "">>]
  ELSE [ok |-> TRUE, error |-> NoError]

\* faulty variant of exchangeCodeForToken: the status is not examined
exchangeCodeForTokenNoCheck(ans) ==
  IF ans.body # "{access_token}"
    THEN [ok |-> FALSE, error |-> <<"TypeError", 0, "">>, access_token |-> NULL]
  ELSE [ok |-> TRUE, error |-> NoError, access_token |-> "at1"]

\* oauth.ts 181-220: exchangeCodeForToken on the token endpoint's answer
exchangeCodeForToken(ans) ==
  IF ~ResponseOk(ans.status)
    THEN [ok |-> FALSE, error |-> <<"Token exchange failed", ans.status, ans.body>>,
          access_token |-> NULL]
  ELSE IF ~IsJson(ans.body)
    THEN [ok |-> FALSE, error |-> <<"SyntaxError", 0, "">>, access_token |-> NULL]
  ELSE IF ans.body # "{access_token}"
    THEN [ok |-> FALSE, error |-> <<"TypeError", 0, "">>, access_token |-> NULL]
  ELSE [ok |-> TRUE, error |-> NoError, access_token |-> "at1"]

\* oauth.ts 114: querystring.parse(req.url.split("?")[1] || "")[key], NULL when absent
QueryParam(url, key) ==
  IF Len(Split(url, "?")) < 2 THEN NULL
  ELSE FirstParam(Split(Split(url, "?")[2], "&"), key)

\* faulty variant of handleCallback: the code is looked for before the error
handleCallbackCodeFirst(url) ==
  IF ~StartsWith(url, <<"/callback">>)
    THEN [page |-> <<404, "Not found", "">>, fromParams |-> FALSE, settle |-> "none",
          value |-> NULL, close |-> FALSE]
  ELSE IF ~Falsy(QueryParam(url, "code"))
    THEN [page |-> <<200, "Authentication Successful!", QueryParam(url, "code")>>,
          fromParams |-> TRUE, settle |-> "resolve", value |-> QueryParam(url, "code"),
          close |-> TRUE]
  ELSE IF ~Falsy(QueryParam(url, "error"))
    THEN [page |-> <<400, "Authentication Error", QueryParam(url, "error")>>,
          fromParams |-> TRUE, settle |-> "reject",
          value |-> QueryParam(url, "error"), close |-> FALSE]
  ELSE [page |-> <<400, "Authentication Error", "missing_code">>, fromParams |-> TRUE,
        settle |-> "reject", value |-> "", close |-> FALSE]

\* oauth.ts 108-162: the listener's request handler.  page: <<status, title, detail>>;
\* settle: the call made on the promise; close: server.close() is called
handleCallback(url) ==
  IF ~StartsWith(url, <<"/callback">>)
    THEN [page |-> <<404, "Not found", "">>, fromParams |-> FALSE, settle |-> "none",
          value |-> NULL, close |-> FALSE]
  ELSE IF ~Falsy(QueryParam(url, "error"))
    THEN [page |-> <<400, "Authentication Error", QueryParam(url, "error")>>,
          fromParams |-> TRUE, settle |-> "reject",
          value |-> QueryParam(url, "error"), close |-> FALSE]
  ELSE IF Falsy(QueryParam(url, "code"))
    THEN [page |-> <<400, "Authentication Error", "missing_code">>, fromParams |-> TRUE,
          settle |-> "reject", value |-> "", close |-> FALSE]
  ELSE [page |-> <<200, "Authentication Successful!", QueryParam(url, "code")>>,
        fromParams |-> TRUE, settle |-> "resolve", value |-> QueryParam(url, "code"),
        close |-> TRUE]

\* the answers of the MCP server, the authorization server and the token endpoint
ResourceAnswers ==
  [status : {200, 404}, body : {"{authorization_servers}", "{}", "not json"}]

ServerAnswers == [status : {200, 500}, body : {"{endpoints}", "{}", "not json"}]

TokenAnswers == [status : {200, 201, 400}, body : {"{access_token}", "{}", "invalid_grant"}]

\* the requests a browser may send to the callback listener
CallbackUrls ==
  {<<"/callback", "?", "code", "=", "c1">>,
   <<"/callback", "?", "error", "=", "access_denied", "&", "error_description", "=", "declined">>,
   <<"/callback", "?", "error", "=", "access_denied", "&", "code", "=", "c2">>,
   <<"/callback", "?", "error", "=", "&", "code", "=", "c1">>,
   <<"/callback">>,
   <<"/callback", "/other", "?", "code", "=", "c3">>,
   <<"/favicon.ico">>}

\* the flow f having moved on to state st, executing step
Advanced(f, st, step) ==
  [f EXCEPT !.state = st, !.trail = Append(@, st), !.log = Append(@, <<"step", step>>)]

\* oauth.ts 50-53: the flow f ends with error e
Failed(f, e) ==
  [f EXCEPT !.state = "Failed", !.trail = Append(@, "Failed"), !.error = e]

\* the flow having received answer ans to its request what
Answered(what, ans) ==
  [fl EXCEPT !.log = Append(@, <<"answer", what, ans.status, ans.body>>)]

\* oauth.ts 10-17: startOAuthFlow is called and requests the resource metadata
FlowStart ==
  /\ fl.state = "Idle"
  /\ fl' = Advanced(fl, "Start", "fetchResource")
  /\ UNCHANGED <<serverVars, rt, dc, vf, cl>>

\* oauth.ts 17-28: the resource metadata request is answered; on success the
\* authorization server's metadata is requested
ResourceAnswer(ans) ==
  /\ fl.state = "Start"
  /\ \E res \in {fetchResourceMetadata(ans)} :
       fl' = IF res.ok THEN Advanced(Answered("resource", ans), "ResourceDiscovered",
                                     "fetchServer")
             ELSE Failed(Answered("resource", ans), res.error)
  /\ UNCHANGED <<serverVars, rt, dc, vf, cl>>

\* oauth.ts 28-38 and 98-175: the server metadata request is answered; on success the
\* callback listener is created and asked to listen
ServerAnswer(ans) ==
  /\ fl.state = "ResourceDiscovered"
  /\ \E res \in {fetchAuthServerMetadata(ans)} :
       fl' = IF res.ok
               THEN [Advanced(Answered("server", ans), "AwaitingCallback", "listen")
                       EXCEPT !.trail = Append(Append(fl.trail, "ServerDiscovered"),
                                               "AwaitingCallback"),
                              !.listen = "pending"]
             ELSE Failed(Answered("server", ans), res.error)
  /\ UNCHANGED <<serverVars, rt, dc, vf, cl>>

\* oauth.ts 165-174: the listener is bound to the port; the browser is opened
ListenOk ==
  /\ fl.listen = "pending"
  /\ fl' = [fl EXCEPT !.listen = "listening"]
  /\ UNCHANGED <<serverVars, rt, dc, vf, cl>>

\* oauth.ts 165: the port cannot be bound; the listener's "error" event has no handler,
\* which ends the process
ListenFail ==
  /\ fl.listen = "pending"
  /\ fl' = [fl EXCEPT !.listen = "none", !.state = "Crashed", !.trail = Append(@, "Crashed")]
  /\ UNCHANGED <<serverVars, rt, dc, vf, cl>>

\* the promise after the handler's call h on it: only the first call settles it
Settled(f, h) ==
  IF f.settled # "none" \/ h.settle = "none" THEN f
  ELSE IF h.settle = "resolve" THEN [f EXCEPT !.settled = "resolved", !.code = h.value]
  ELSE [f EXCEPT !.settled = "rejected",
                 !.rejection = IF h.value = "" THEN <<"No authorization code received", 0, "">>
                               ELSE <<"Authorization error", 0, h.value>>]

\* oauth.ts 108-162: a request reaches the listener, on a new connection while it
\* listens or on the connection kept alive; keep: the connection stays alive afterwards
Callback(url, keep) ==
  /\ fl.listen = "listening" \/ fl.alive
  /\ Len(fl.cbs) < MaxCallbacks
  /\ \E h \in {handleCallback(url)} :
       fl' = [Settled(fl, h) EXCEPT
                !.cbs = Append(@, [url |-> url, late |-> fl.settled # "none",
                                   page |-> h.page, fromParams |-> h.fromParams]),
                !.listen = IF h.close THEN "closed" ELSE @,
                !.alive = keep]
  /\ UNCHANGED <<serverVars, rt, dc, vf, cl>>

\* faulty variant of TokenRequestCode: the code is read from the callback handled last
TokenRequestCodeLatest(f) ==
  IF f.cbs = <<>> THEN NULL ELSE QueryParam(f.cbs[Len(f.cbs)].url, "code")

\* oauth.ts 36-43 and 193-199: the code the token request carries: the value the promise
\* of openAuthorizationWindow resolved to
TokenRequestCode(f) == f.code

\* oauth.ts 38-43: the await of openAuthorizationWindow ends; with a code the token
\* request is sent
FlowResume ==
  /\ fl.state = "AwaitingCallback"
  /\ fl.settled # "none"
  /\ fl' = IF fl.settled = "resolved"
             THEN [Advanced(fl, "CodeReceived", "tokenRequest") EXCEPT
                     !.posts = Append(@, TokenRequestCode(fl))]
           ELSE Failed(fl, fl.rejection)
  /\ UNCHANGED <<serverVars, rt, dc, vf, cl>>

\* oauth.ts 43-49: the token endpoint answers
TokenAnswer(ans) ==
  /\ fl.state = "CodeReceived"
  /\ \E res \in {exchangeCodeForToken(ans)} :
       fl' = IF res.ok
               THEN [Answered("token", ans) EXCEPT
                       !.state = "Completed", !.trail = Append(@, "Completed"),
                       !.returned = res.access_token]
             ELSE Failed(Answered("token", ans), res.error)
  /\ UNCHANGED <<serverVars, rt, dc, vf, cl>>

NextFlow ==
  \/ FlowStart
  \/ \E ans \in ResourceAnswers : ResourceAnswer(ans)
  \/ \E ans \in ServerAnswers : ServerAnswer(ans)
  \/ ListenOk
  \/ ListenFail
  \/ \E url \in CallbackUrls, keep \in BOOLEAN : Callback(url, keep)
  \/ FlowResume
  \/ \E ans \in TokenAnswers : TokenAnswer(ans)

SpecFlow == Init /\ [][NextFlow]_vars

-----------------------------------------------------------------------------
(* The client's token utilities: decodeToken.                              *)

\* longest token text given to decodeToken, in pieces
MaxTokenLen == 5

\* the pieces of a token's text: the base64url text of a JSON header, the base64url text
\* of a JSON payload, base64url text that is not JSON, and the dot
HeaderB64 == "eyJhbGciOiJSUzI1NiJ9"
PayloadB64 == "eyJzdWIiOiJ1c2VyIn0"
SignatureB64 == "c2lnbmF0dXJl"
TokenPieces == {HeaderB64, PayloadB64, SignatureB64, "."}

\* tokens.ts 23-24 and 45: the two error objects
InvalidTokenFormat == "{error: Invalid token format}"
CouldNotParseJSON == "{error: Could not parse JSON}"

\* tokens.ts 42-43: Buffer.from(base64, "base64").toString() and JSON.parse of a part's
\* text; NULL when JSON.parse throws (the empty text, text that is not JSON, two JSON
\* texts one after the other)
ParseB64Json(part) ==
  IF part = <<HeaderB64>> THEN "{alg: RS256}"
  ELSE IF part = <<PayloadB64>> THEN "{sub: user}"
  ELSE NULL

\* tokens.ts 33-47: decodeBase64Part.  defined: the part exists; reading the length of
\* a missing part throws outside the inner try
decodeBase64Part(defined, part) ==
  IF ~defined THEN [threw |-> TRUE, value |-> NULL]
  ELSE IF ParseB64Json(part) = NULL THEN [threw |-> FALSE, value |-> CouldNotParseJSON]
  ELSE [threw |-> FALSE, value |-> ParseB64Json(part)]

\* tokens.ts 20-27: the catch of decodeToken
DecodeFailed ==
  [header |-> InvalidTokenFormat, payload |-> InvalidTokenFormat, hasSignature |-> FALSE,
   raised |-> FALSE]

\* tokens.ts 10-19 on the parts of the split text: the header part always exists, the
\* payload part is missing when the text holds no dot
DecodeParts(parts) ==
  IF decodeBase64Part(TRUE, parts[1]).threw
       \/ decodeBase64Part(Len(parts) >= 2, IF Len(parts) >= 2 THEN parts[2] ELSE <<>>).threw
    THEN DecodeFailed
  ELSE [header |-> decodeBase64Part(TRUE, parts[1]).value,
        payload |-> decodeBase64Part(TRUE, parts[2]).value,
        hasSignature |-> Len(parts) >= 3 /\ parts[3] # <<>>,
        raised |-> FALSE]

\* tokens.ts 8-28: decodeToken; split on something that is not a string throws
decodeToken(token) ==
  IF ~token.str THEN DecodeFailed
  ELSE DecodeParts(Split(token.chars, "."))

\* the arguments of decodeToken: every text of at most MaxTokenLen pieces, and a value
\* that is not a string
DecodeInputs ==
  {[str |-> TRUE, chars |-> t] : t \in SeqsUpTo(TokenPieces, MaxTokenLen)}
    \cup {[str |-> FALSE, chars |-> <<>>]}

\* decodeToken is called on token
DecodeCall(token) ==
  /\ ~dc.called
  /\ \E d \in {decodeToken(token)} :
       dc' = [called |-> TRUE, input |-> token, header |-> d.header,
              payload |-> d.payload, hasSignature |-> d.hasSignature,
              raised |-> d.raised]
  /\ UNCHANGED <<serverVars, rt, fl, vf, cl>>

NextDecode == \E token \in DecodeInputs : DecodeCall(token)

SpecDecode == Init /\ [][NextDecode]_vars

-----------------------------------------------------------------------------
(* verifyToken (auth/tokenValidator), called directly on any token.         *)

\* what a token may decode to: any header and payload, with a signature that verifies
\* under the resolved key or not
VerifyJwts ==
  [fmt : BOOLEAN, kid : {"k1", NULL}, alg : {"RS256", "HS256", "none"}, sig : BOOLEAN,
   exp : {"future", "past", "none"}, iss : BOOLEAN, aud : BOOLEAN]

MaxVerifyCalls == 3

\* the jwksUri a call may pass in its config (or take from the default config)
JwksUris == {"uriA", "uriB"}

\* faulty variant of RejectedBeforeKey: the key identifier is not looked at before the
\* key is resolved
RejectedBeforeKeyFormatOnly(j) == ~j.fmt

\* tokenValidator.ts 104-114: the checks made before any key is looked for
RejectedBeforeKey(j) == ~j.fmt \/ Falsy(j.kid)

\* faulty variant of getJwksClient: a client is created for the jwksUri of each call
getJwksClientFresh(instance, jwksUri) == jwksUri

\* tokenValidator.ts 54-66: the client kept in jwksClientInstance (named by the jwksUri
\* it was created with, NULL for none) after getJwksClient(jwksUri)
getJwksClient(instance, jwksUri) == IF instance = NULL THEN jwksUri ELSE instance

\* tokenValidator.ts 93-117: verifyToken is called with jwksUri uri on a token decoding
\* to j and runs up to the await of getSigningKey, whose executor gets the client and
\* starts the lookup (71-74), or throws before it.  The fields state, jwt, keyOk, log
\* and result are those of the latest call; client, created, calls, first and lookups
\* are the process's: the client kept, the clients created, the calls begun, the
\* jwksUri of the first call, and for each lookup the jwksUri passed and the client used
VerifyCall(j, uri) ==
  /\ vf.state \in {"idle", "done"}
  /\ vf.calls < MaxVerifyCalls
  /\ \E c \in {getJwksClient(vf.client, uri)} :
       vf' = IF RejectedBeforeKey(j)
               THEN [vf EXCEPT !.state = "done", !.jwt = j, !.keyOk = FALSE,
                               !.log = <<"decode">>,
                               !.result = verifyDecoded(j, FALSE, jwtVerify(j)),
                               !.calls = @ + 1,
                               !.first = IF vf.calls = 0 THEN uri ELSE @]
             ELSE [vf EXCEPT !.state = "resolving", !.jwt = j, !.keyOk = FALSE,
                             !.log = <<"decode", "getSigningKey">>,
                             !.result = VfIdle.result,
                             !.calls = @ + 1,
                             !.first = IF vf.calls = 0 THEN uri ELSE @,
                             !.client = c,
                             !.created = IF c # vf.client THEN @ + 1 ELSE @,
                             !.lookups = Append(@, [uri |-> uri, client |-> c])]
  /\ UNCHANGED <<serverVars, rt, fl, dc, cl>>

\* tokenValidator.ts 71-88 and 117-142: getSigningKey settles; with a key jwt.verify runs
VerifyKeySettle(keyOk) ==
  /\ vf.state = "resolving"
  /\ \E v \in {verifyDecoded(vf.jwt, keyOk, jwtVerify(vf.jwt))} :
       vf' = [vf EXCEPT !.state = "done", !.keyOk = keyOk, !.result = v,
                        !.log = IF keyOk THEN Append(@, "jwt.verify") ELSE @]
  /\ UNCHANGED <<serverVars, rt, fl, dc, cl>>

NextVerify ==
  \/ \E j \in VerifyJwts, uri \in JwksUris : VerifyCall(j, uri)
  \/ \E keyOk \in BOOLEAN : VerifyKeySettle(keyOk)

SpecVerify == Init /\ [][NextVerify]_vars

-----------------------------------------------------------------------------
(* The client's main against the server: it connects without a credential,  *)
(* runs the flow when answered 401, reconnects with the token and posts to  *)
(* the session the endpoint event announced.  Every request is the          *)
(* client's; each server step is taken together with what the client        *)
(* learns from it.                                                          *)

MaxPosts == 2

\* the access token the authorization server issued, as the server's verifyToken reads
\* it
IssuedAs == {"tokValid", "tokExpired"}

\* index.ts 15-19: main has begun
ClStart == [ClIdle EXCEPT !.state = "start"]

InitScenario ==
  /\ InitServer
  /\ cl = ClStart

\* what the client learns: what happened ("reject": the gate answered; "allow": the
\* gate let the request through to its handler; "answer": the handler answered at once;
\* "session": the endpoint event; "deliver", "fail": the message was accepted or not;
\* "token", "noToken": the flow ended; "closed": a connection closed), on which request
\* and with which credential, the status answered, the session named, the handle the
\* registry held for it and the handle the message went to
Ev(what, on, auth, st, sid, reg, handle) ==
  [what |-> what, on |-> on, auth |-> auth, status |-> st, sid |-> sid, reg |-> reg,
   handle |-> handle]

\* the client c moves to position st having learnt ev; a client that exited learns
\* nothing
Did(c, st, ev) ==
  IF c.state = "exit" THEN c ELSE [c EXCEPT !.state = st, !.hist = Append(@, ev)]

\* sseTransport.ts 74-75: the request that opens the stream
SseRequest(authz) == Rq("GET", <<"/sse">>, authz, <<>>, <<>>, NULL)

\* the request the transport posts a message with
PostRequest(sid, authz) ==
  Rq("POST", <<"/messages", "?", "sessionId", "=", sid>>, authz, <<>>, <<>>, NULL)

AuthOf(rq) == IF rq.authorization = <<>> THEN "none" ELSE "bearer"

\* the session a request names
SidOf(rq) == SearchParamsGet(rq.url, "sessionId")

\* index.ts 30-50 and mcpClient.ts 46-58: what the client learns when the server has
\* handled its request rq in slot r up to the handler's first suspension or to the
\* answer; reg: the handle the registry held for the session named.  A rejected
\* connect without a credential starts the flow; any other failure ends main
Outcome(c, r, rq, reg) ==
  IF pc'[r] = "verifying"
    THEN [c EXCEPT !.state = IF rq.method = "GET" THEN "connecting" ELSE "posted"]
  ELSE IF last'.by = "gate"
    THEN Did(c, IF c.state = "start" /\ last'.status = 401 THEN "authenticating" ELSE "exit",
             Ev("reject", rq.method, AuthOf(rq), last'.status, SidOf(rq), reg, NoHandle))
  ELSE IF last'.by \in {"handler", "nobody"}
    THEN Did(c, "exit",
             Ev("answer", rq.method, AuthOf(rq), last'.status, SidOf(rq), reg, NoHandle))
  ELSE IF pc'[r] = "connecting"
    THEN Did(c, "connecting", Ev("allow", "GET", AuthOf(rq), 0, NULL, NoHandle, NoHandle))
  ELSE IF pc'[r] = "posting"
    THEN Did(c, "posted", Ev("allow", "POST", AuthOf(rq), 0, SidOf(rq), reg, target'[r]))
  ELSE c

\* index.ts 26-30: the client connects without a credential
ClConnect(r) ==
  /\ cl.state = "start"
  /\ Received(r, SseRequest(<<>>))
  /\ cl' = Outcome(cl, r, SseRequest(<<>>), NoHandle)
  /\ UNCHANGED <<g, ext, rt, fl, dc, vf>>

\* index.ts 39: startOAuthFlow runs
ClFlow ==
  /\ cl.state = "authenticating"
  /\ fl.state \notin {"Completed", "Failed"}
  /\ NextFlow

\* index.ts 39-46: startOAuthFlow returned the token, or threw and main exits
ClToken ==
  /\ cl.state = "authenticating"
  /\ fl.state \in {"Completed", "Failed"}
  /\ cl' = IF fl.state = "Completed"
             THEN [Did(cl, "haveToken", Ev("token", "", "none", 0, NULL, NoHandle, NoHandle))
                     EXCEPT !.token = fl.returned]
           ELSE Did(cl, "exit", Ev("noToken", "", "none", 0, NULL, NoHandle, NoHandle))
  /\ UNCHANGED <<serverVars, rt, fl, dc, vf>>

\* index.ts 42, mcpClient.ts 42-46 and token.ts 48-75: the client reconnects; the
\* patched fetch adds the bearer token, which the server reads as t
ClReconnect(r, t) ==
  /\ cl.state = "haveToken"
  /\ Received(r, SseRequest(Bearer(t)))
  /\ cl' = [Outcome(cl, r, SseRequest(Bearer(t)), NoHandle) EXCEPT !.jwt = t]
  /\ UNCHANGED <<g, ext, rt, fl, dc, vf>>

\* the server verified the token of the client's request in slot r
ClVerifyDone(r, keyOk) ==
  /\ Verified(r, keyOk)
  /\ cl' = Outcome(cl, r, req[r], getTransport(transports, SidOf(req[r])))
  /\ UNCHANGED <<g, ext, rt, fl, dc, vf>>

\* the stream is established: the endpoint event announces the session
ClConnectOk(r) ==
  /\ Connected(r)
  /\ cl' = IF pc'[r] = "streaming" /\ open'[r]
             THEN [Did(cl, "connected", Ev("session", "GET", "bearer", 200, listener'[r], r, r))
                     EXCEPT !.sid = IF cl.state = "exit" THEN @ ELSE listener'[r]]
           ELSE cl
  /\ UNCHANGED <<g, ext, rt, fl, dc, vf>>

\* connecting the transport failed: the client's connect fails and main exits
ClConnectFail(r) ==
  /\ ConnectFailed(r)
  /\ cl' = Did(cl, "exit", Ev("fail", "GET", "bearer", 500, NULL, NoHandle, NoHandle))
  /\ UNCHANGED <<g, ext, rt, fl, dc, vf>>

\* mcpClient.ts 46-51: the transport posts a message to the session announced; with the
\* patched fetch it carries the bearer token, without it no Authorization header
ClPost(r, auth) ==
  /\ cl.state = "connected"
  /\ cl.posts < MaxPosts
  /\ \E rq \in {PostRequest(cl.sid, IF auth THEN Bearer(cl.jwt) ELSE <<>>)} :
       /\ Received(r, rq)
       /\ cl' = [Outcome(cl, r, rq, getTransport(transports, cl.sid))
                   EXCEPT !.posts = cl.posts + 1]
  /\ UNCHANGED <<g, ext, rt, fl, dc, vf>>

\* the transport took the message (202) or handlePostMessage failed (500)
ClPostDone(r, posted) ==
  /\ Posted(r, posted)
  /\ cl' = IF posted
             THEN Did(cl, "connected",
                      Ev("deliver", "POST", "", 202, cl.sid, NoHandle, last'.handle))
           ELSE Did(cl, "exit", Ev("fail", "POST", "", 500, cl.sid, NoHandle, NoHandle))
  /\ UNCHANGED <<g, ext, rt, fl, dc, vf>>

\* a connection of the client closes; a client still waiting for its session gives up
ClClose(r) ==
  /\ Closed(r)
  /\ cl' = Did(cl, IF cl.state = "connecting" THEN "exit" ELSE cl.state,
               Ev("closed", IF pc[r] = "posting" THEN "POST" ELSE "GET", "", 0,
                  listener[r], NoHandle, NoHandle))
  /\ UNCHANGED <<g, ext, rt, fl, dc, vf>>

NextScenario ==
  \/ \E r \in Slots : ClConnect(r)
  \/ ClFlow
  \/ ClToken
  \/ \E r \in Slots, t \in IssuedAs : ClReconnect(r, t)
  \/ \E r \in Slots, keyOk \in BOOLEAN : ClVerifyDone(r, keyOk)
  \/ \E r \in Slots : ClConnectOk(r)
  \/ \E r \in Slots : ClConnectFail(r)
  \/ \E r \in Slots, auth \in BOOLEAN : ClPost(r, auth)
  \/ \E r \in Slots, posted \in BOOLEAN : ClPostDone(r, posted)
  \/ \E r \in Slots : ClClose(r)

SpecScenario == InitScenario /\ [][NextScenario]_vars

-----------------------------------------------------------------------------
(* Properties.                                                             *)

\* the path of a URL: what precedes the first "?"
PathOf(url) == IF IndexOf(url, "?") = 0 THEN url ELSE SubSeq(url, 1, IndexOf(url, "?") - 1)

\* a request to a well-known discovery path
DiscoveryPath(r) == Includes(PathOf(r.url), WELL_KNOWN)

\* the request names, through the sessionId parameter, a session present in registry tr
NamesSession(r, tr) == getTransport(tr, SearchParamsGet(r.url, "sessionId")) # NoHandle

\* no source of the request yields a non-empty credential
NoCredential(r) ==
  /\ Falsy(HeaderSource(r).value)
  /\ Falsy(UrlSource(r).value)
  /\ Falsy(CookieSource(r).value)
  /\ Falsy(BodySource(r).value)

\* the gate invoked its continuation without extracting or verifying anything
AllowedUnchecked ==
  /\ g.state = "done"
  /\ g.d.out = "next"
  /\ g.d.status = 0
  /\ g.d.body = NoBody
  /\ ~g.d.extracted
  /\ ~g.verify.called

\* the gate answered 401 with an error body and did not invoke its continuation
Rejected401 ==
  /\ g.state = "done"
  /\ g.d.out = "respond"
  /\ g.d.status = 401
  /\ g.d.body # NoBody

\* sid was registered and not removed since
Live(log, sid) ==
  \E i \in 1..Len(log) :
    /\ log[i] = <<"register", sid>>
    /\ \A j \in (i + 1)..Len(log) : log[j] # <<"remove", sid>>

\* no identifier is registered again after it was removed
NoReuse(log) ==
  \A i \in 1..Len(log) : \A j \in (i + 1)..Len(log) :
    log[i][1] = "remove" => log[j] # <<"register", log[i][2]>>

\* C1: in the configured server every session in the registry was registered by a
\* request whose credential passed verifyToken.
C1_RegisteredOnlyAfterVerification ==
  \A sid \in DOMAIN transports : verified[transports[sid]]

C1_Witness ==
  \E sid \in DOMAIN transports :
    /\ pc[transports[sid]] = "streaming"
    /\ verified[transports[sid]]
    /\ open[transports[sid]]

\* C2: after any sequence of register and remove calls, lookup(id) returns a handle
\* if and only if id was returned by an earlier register and not removed since.
C2_LookupIffLive ==
  \A sid \in RegistrySids : (getTransport(transports, sid) # NoHandle) <=> Live(regLog, sid)

C2_Witness ==
  \E a \in RegistrySids, b \in RegistrySids :
    /\ a # b
    /\ Live(regLog, b)
    /\ getTransport(transports, b) # NoHandle
    /\ \E i \in 1..Len(regLog) : \E j \in (i + 1)..Len(regLog) :
         regLog[i] = <<"register", a>> /\ regLog[j] = <<"remove", a>>
    /\ getTransport(transports, a) = NoHandle

\* C3: a sessionId is in the registry if and only if the streaming connection it was
\* registered for is currently open.
C3_RegisteredIffOpen ==
  \A i \in 1..sidCount :
    (FreshSid(i) \in DOMAIN transports)
      <=> (\E r \in Slots : listener[r] = FreshSid(i) /\ open[r])

\* C4: a removed sessionId is never valid again: the session shortcut admits no request
\* naming it, and register never returns it again.
C4_RemovedNeverValidAgain == ~stale /\ NoReuse(regLog)

C4_Witness ==
  /\ refused
  /\ \E i \in 1..Len(regLog) : \E j \in (i + 1)..Len(regLog) :
       regLog[i][1] = "remove" /\ regLog[j][1] = "register"

\* C5: every gate invokes its continuation, writing no response and looking at no
\* credential, on every request to a well-known discovery path and every OPTIONS
\* request, whatever credential or session parameter it carries.
C5_DiscoveryAndPreflightAllowed ==
  (g.state # "idle" /\ (DiscoveryPath(g.req) \/ g.req.method = "OPTIONS"))
    => AllowedUnchecked

C5_Witness ==
  /\ g.state = "done"
  /\ g.req.method = "OPTIONS"
  /\ ~DiscoveryPath(g.req)
  /\ g.req.authorization = <<>>
  /\ ~NamesSession(g.req, transports)
  /\ g.d.out = "next"

C8_NextIffVerified ==
  (g.state = "done" /\ g.kind \in {"simple", "auth"} /\ g.verify.called)
    => /\ (g.d.out = "next") <=> g.verify.ok
       /\ ~g.verify.ok => Rejected401

\* the token is expired and valid in every other respect
ExpiredOnly(t) == JwtOf(t) = [GoodJwt EXCEPT !.exp = "past"]

\* the reason a gate gives for an expired token
ExpiredReason(kind) == IF kind = "auth" THEN AuthExpired ELSE SimpleInvalid("jwt expired")

\* C9: an expired but otherwise valid token is rejected with 401 and the "expired"
\* reason, and no other verification failure is answered with that reason.
C9_ExpiredDistinguishable ==
  (g.state = "done" /\ g.verify.called)
    => /\ (g.verify.keyOk /\ ExpiredOnly(g.d.token))
            => (Rejected401 /\ g.d.body = ExpiredReason(g.kind))
       /\ (JwtOf(g.d.token).exp # "past" /\ g.d.out = "respond")
            => g.d.body # ExpiredReason(g.kind)

C9_Witness ==
  /\ g.state = "done"
  /\ g.kind = "auth"
  /\ g.verify.keyOk
  /\ g.d.token = "tokExpired"
  /\ g.d.body = AuthExpired

\* the sources in the order extractToken scans them, and what each yields
SourceOrder == <<"Authorization header", "URL parameter", "Cookie", "Request body">>

Yield(r, i) ==
  CASE i = 1 -> HeaderSource(r).value
    [] i = 2 -> UrlSource(r).value
    [] i = 3 -> CookieSource(r).value
    [] i = 4 -> BodySource(r).value

\* C10: extractToken returns the value of the first source, in the order header, URL
\* parameter, cookie, body, that yields a non-empty value, reports that source, and
\* consults no later source.
C10_FirstSourceWins ==
  ext.called =>
    \A i \in 1..Len(SourceOrder) :
      (~Falsy(Yield(ext.req, i)) /\ \A j \in 1..(i - 1) : Falsy(Yield(ext.req, j)))
        => /\ ext.res.token = Yield(ext.req, i)
           /\ ext.res.source = SourceOrder[i]
           /\ \A k \in (i + 1)..Len(SourceOrder) : SourceOrder[k] \notin ext.res.consulted

C10_Witness ==
  /\ ext.called
  /\ HeaderSource(ext.req).hit
  /\ Falsy(Yield(ext.req, 1))
  /\ Falsy(Yield(ext.req, 2))
  /\ ~Falsy(Yield(ext.req, 4))
  /\ ext.res.source = "Cookie"
  /\ ext.res.token = "tokExpired"

\* the positions of the log of a handleRequest call holding an event of kind k
Events(k) == {j \in DOMAIN rt.log : rt.log[j][1] = k}

\* C11: one call of handleRequest invokes the terminal handler of the matched route at
\* most once, whatever the middleware do with their continuation.
C11_HandlerAtMostOnce ==
  rt.state = "called" => Cardinality(Events("handler")) <= 1

\* C12: once the response is ended, no later middleware and no terminal handler is
\* invoked, even if a middleware invokes its continuation afterwards.
C12_NothingStartsAfterEnd ==
  rt.state = "called" =>
    \A i \in Events("end") : \A j \in Events("start") \cup Events("handler") : j < i

C12_Witness ==
  /\ rt.state = "called"
  /\ Len(rt.mws) = 2
  /\ \E i \in Events("end") : \E j \in Events("next") : i < j /\ rt.log[j][2] = 1
  /\ Events("handler") = {}

\* C13: the middleware run in registration order, middleware i+1 (and after the last,
\* the handler) starting only when middleware i invokes its continuation; while a
\* middleware has not invoked its continuation, nothing after it has run.
C13_ChainInOrder ==
  (rt.state = "called" /\ Len(rt.mws) > 0) =>
    /\ rt.log # <<>> => rt.log[1] = <<"start", 1>>
    /\ \A j \in Events("start") :
         rt.log[j][2] > 1 => (j > 1 /\ rt.log[j - 1] = <<"next", rt.log[j][2] - 1>>)
    /\ \A j \in Events("handler") : j > 1 /\ rt.log[j - 1] = <<"next", Len(rt.mws)>>
    /\ \A k \in 1..Len(rt.mws) :
         (\A j \in Events("next") : rt.log[j][2] # k)
           => /\ \A j \in Events("start") : rt.log[j][2] <= k
              /\ Events("handler") = {}

C13_Witness ==
  /\ rt.state = "called"
  /\ rt.mws = << <<"next">>, <<"end">> >>
  /\ rt.log = << <<"start", 1>>, <<"next", 1>>, <<"start", 2>>, <<"end", 2>> >>

\* a rule matches a request: its method is the request's or ALL, and its pattern, an
\* exact string, a prefix before a trailing wildcard, or a regular expression, matches
RuleMatches(rule, method, url) ==
  /\ rule.method \in {method, "ALL"}
  /\ \/ rule.regexp /\ RegExpTest(rule.path, url)
     \/ ~rule.regexp /\ rule.path = url
     \/ /\ ~rule.regexp
        /\ rule.path # <<>>
        /\ rule.path[Len(rule.path)] = "*"
        /\ StartsWith(url, SubSeq(rule.path, 1, Len(rule.path) - 1))

FlowOrder == <<"Idle", "Start", "ResourceDiscovered", "ServerDiscovered",
               "AwaitingCallback", "CodeReceived", "Completed">>

\* an answer that makes its step fail: a status outside 2xx, or a body that is not the
\* JSON object the step needs
FailingAnswer(ev) ==
  /\ ev[1] = "answer"
  /\ \/ ev[3] < 200
     \/ ev[3] > 299
     \/ ev[2] = "resource" /\ ev[4] # "{authorization_servers}"
     \/ ev[2] = "server" /\ ev[4] # "{endpoints}"
     \/ ev[2] = "token" /\ ev[4] # "{access_token}"

\* step was executed in the flow
Executed(step) == \E j \in DOMAIN fl.log : fl.log[j] = <<"step", step>>

\* C15: a run passes through Start, ResourceDiscovered, ServerDiscovered,
\* AwaitingCallback, CodeReceived, Completed in that order without going back; a
\* failure ends the run with an error and no later step of the run is executed.
C15_ForwardOnlyFailureTerminal ==
  /\ \A i \in DOMAIN fl.trail :
       \/ i <= Len(FlowOrder) /\ fl.trail[i] = FlowOrder[i]
       \/ i = Len(fl.trail) /\ fl.trail[i] \in {"Failed", "Crashed"}
  /\ \A i \in DOMAIN fl.log :
       FailingAnswer(fl.log[i])
         => /\ fl.state = "Failed"
            /\ fl.error # NoError
            /\ \A j \in DOMAIN fl.log : j > i => fl.log[j][1] # "step"
  /\ fl.settled = "rejected" => ~Executed("tokenRequest")
  /\ (fl.settled = "rejected" /\ fl.state # "AwaitingCallback")
       => (fl.state = "Failed" /\ fl.error # NoError)

C15_Witness ==
  /\ fl.state = "Failed"
  /\ fl.trail = SubSeq(FlowOrder, 1, 6) \o <<"Failed">>
  /\ fl.error[1] = "Token exchange failed"

\* the first request to the callback path the listener handled, 0 when there is none
FirstCallback ==
  IF \E i \in DOMAIN fl.cbs : StartsWith(fl.cbs[i].url, <<"/callback">>)
    THEN CHOOSE i \in DOMAIN fl.cbs :
           /\ StartsWith(fl.cbs[i].url, <<"/callback">>)
           /\ \A j \in 1..(i - 1) : ~StartsWith(fl.cbs[j].url, <<"/callback">>)
    ELSE 0

\* the flow failed, or is about to fail, with an authorization-denied error, the browser
\* got an error page and no token request was issued
DeniedWithoutTokenRequest ==
  /\ fl.settled = "rejected"
  /\ fl.rejection[1] = "Authorization error"
  /\ fl.state \in {"AwaitingCallback", "Failed"}
  /\ fl.state = "Failed" => fl.error = fl.rejection
  /\ fl.cbs[FirstCallback].page[1] = 400
  /\ fl.cbs[FirstCallback].page[2] = "Authentication Error"
  /\ ~Executed("tokenRequest")

\* C16 as stated: if the authorization callback carries an error parameter, the flow
\* fails with an authorization-denied error, the browser gets an error page and no token
\* request is ever issued.
C16_ErrorParameterDenies ==
  (FirstCallback # 0 /\ QueryParam(fl.cbs[FirstCallback].url, "error") # NULL)
    => DeniedWithoutTokenRequest

\* C16 amended: the same when the error parameter is not empty.
C16_NonEmptyErrorParameterDenies ==
  (FirstCallback # 0 /\ ~Falsy(QueryParam(fl.cbs[FirstCallback].url, "error")))
    => DeniedWithoutTokenRequest

C16_Witness ==
  /\ FirstCallback # 0
  /\ QueryParam(fl.cbs[FirstCallback].url, "error") = "access_denied"
  /\ QueryParam(fl.cbs[FirstCallback].url, "code") = "c2"
  /\ fl.state = "Failed"
  /\ fl.error = <<"Authorization error", 0, "access_denied">>

\* C17: the listener settles the flow once and then stops accepting connections: a
\* callback request arriving after the first settlement is not processed (no page is
\* rendered from its parameters).
C17_LateCallbacksIgnored ==
  /\ fl.settled # "none" => fl.listen # "listening"
  /\ \A i \in DOMAIN fl.cbs : fl.cbs[i].late => ~fl.cbs[i].fromParams

\* C18: when a run has ended, in success or in failure, its callback listener is closed:
\* no listening port remains bound.
C18_ListenerClosedAtEnd ==
  fl.state \in {"Completed", "Failed"} => fl.listen \notin {"pending", "listening"}

Segments == Split(dc.input.chars, ".")

\* segment i of the input is the base64url text of a JSON object
JsonSegment(i) ==
  /\ dc.input.str
  /\ Len(Segments) >= i
  /\ Segments[i] \in {<<HeaderB64>>, <<PayloadB64>>}

\* C20: decodeToken never raises; for a token of three dot-separated segments whose
\* first two are base64url-encoded JSON it returns those header and payload objects;
\* for every input that misses a segment or whose header or payload is not valid
\* base64/JSON it returns the invalid-format sentinel.
C20_DecodedOrSentinel ==
  dc.called =>
    /\ ~dc.raised
    /\ (dc.input.str /\ Len(Segments) = 3 /\ JsonSegment(1) /\ JsonSegment(2))
         => /\ dc.header = "{alg: RS256}" \/ dc.header = "{sub: user}"
            /\ dc.payload = "{alg: RS256}" \/ dc.payload = "{sub: user}"
    /\ (~dc.input.str \/ Len(Segments) < 3 \/ ~JsonSegment(1) \/ ~JsonSegment(2))
         => /\ dc.header = InvalidTokenFormat
            /\ dc.payload = InvalidTokenFormat
            /\ ~dc.hasSignature

\* C21: verifyToken rejects every token whose header names a signing algorithm other
\* than RS256, whatever its signature, issuer, audience and expiry.
C21_OnlyRS256Verified ==
  (vf.state = "done" /\ vf.jwt.alg # "RS256") => ~vf.result.ok

C21_Witness ==
  /\ vf.state = "done"
  /\ vf.keyOk
  /\ vf.jwt = [GoodJwt EXCEPT !.alg = "HS256"]
  /\ vf.result.message = "invalid algorithm"

\* the response was ended before position j of the log
EndedBefore(j) == \E i \in Events("end") \cup Events("catch") : i < j

\* C23: no error raised by a middleware, or by the terminal handler reached through
\* the middleware chain, escapes the router: handleRequest never rejects, no rejection
\* is left unhandled, and every such error is turned into an HTTP error response.
C23_NoErrorEscapes ==
  (rt.state = "called" /\ Len(rt.mws) > 0) =>
    /\ HandleRequestResult(rt) # "rejected"
    /\ rt.unhandled = 0
    /\ \A j \in Events("throw") : EndedBefore(j) \/ rt.status = 500

\* C24: if a middleware throws during the chain, the router answers with status 500
\* unless the response was already ended, and no later middleware and no terminal
\* handler is invoked for that request.
C24_ThrowAnswered500ChainStopped ==
  rt.state = "called" =>
    \A j \in Events("throw") :
      rt.log[j][2] <= Len(rt.mws) =>
        /\ EndedBefore(j) \/ rt.status = 500
        /\ \A k \in Events("start") \cup Events("handler") : k < j

\* C25: when no registered rule matches the request's method and path, handleRequest
\* returns false having invoked no middleware and no handler and having written nothing
\* to the response.
C25_NoMatchLeftUnhandled ==
  (rt.state = "called"
     /\ \A i \in 1..Len(rt.routes) : ~RuleMatches(rt.routes[i], rt.method, rt.url))
    => /\ HandleRequestResult(rt) = "false"
       /\ rt.log = <<>>
       /\ rt.acts = <<>>
       /\ ~rt.ended
       /\ rt.status = 0

C25_Witness ==
  /\ rt.state = "called"
  /\ Len(rt.routes) = MaxRoutes
  /\ Len(rt.mws) > 0
  /\ \E i \in 1..Len(rt.routes) : rt.routes[i].method = rt.method
  /\ \A i \in 1..Len(rt.routes) : ~RuleMatches(rt.routes[i], rt.method, rt.url)
  /\ HandleRequestResult(rt) = "false"

\* the callback requests that made the listener resolve the flow, in order
Resolving == {i \in DOMAIN fl.cbs : fl.cbs[i].page[1] = 200}

\* C29: within one run an authorization code is exchanged exactly once: the token
\* endpoint receives at most one POST, issued only after the listener captured a code,
\* and carrying exactly that code (the code of the first callback that resolved).
C29_CodeExchangedOnce ==
  /\ Len(fl.posts) <= 1
  /\ Len(fl.posts) = Cardinality({j \in DOMAIN fl.log : fl.log[j] = <<"step", "tokenRequest">>})
  /\ fl.posts # <<>> =>
       /\ Resolving # {}
       /\ \E i \in Resolving :
            /\ \A j \in Resolving : i <= j
            /\ ~fl.cbs[i].late
            /\ fl.posts[1] = QueryParam(fl.cbs[i].url, "code")
  /\ fl.state \in {"CodeReceived", "Completed"} => Len(fl.posts) = 1

C29_Witness ==
  /\ fl.state = "Completed"
  /\ Len(fl.cbs) = 2
  /\ QueryParam(fl.cbs[1].url, "code") = "c1"
  /\ QueryParam(fl.cbs[2].url, "code") = "c3"
  /\ fl.cbs[2].page[1] = 200
  /\ fl.posts = <<"c1">>

\* the listener handles a request in this step
Handles == Len(fl'.cbs) = Len(fl.cbs) + 1

\* the request handled in this step got a not-found response and the flow is as before:
\* neither resolved nor rejected, the listener listening as it was
NotFoundFlowUnchanged ==
  /\ fl'.cbs[Len(fl'.cbs)].page[1] = 404
  /\ ~fl'.cbs[Len(fl'.cbs)].fromParams
  /\ fl'.settled = fl.settled
  /\ fl'.code = fl.code
  /\ fl'.rejection = fl.rejection
  /\ fl'.listen = fl.listen
  /\ fl'.state = fl.state

\* C30: a request to the listener on any path other than the callback path gets a
\* not-found response and leaves the flow unchanged.
C30_OtherPathNotFound ==
  [][(Handles /\ PathOf(fl'.cbs[Len(fl'.cbs)].url) # <<"/callback">>)
       => NotFoundFlowUnchanged]_vars

\* what a gate of the given kind decides on request rq with registry tr when the key
\* lookup of verifyToken has outcome keyOk
GateDecides(kind, rq, tr, keyOk) ==
  The({IF d.out = "verify"
         THEN GateVerified(kind, rq, d, verifyToken(d.token, keyOk))
         ELSE d : d \in {GateSync(kind, rq, tr)}})

\* the validating gate that was not invoked
OtherGate == IF g.kind = "auth" THEN "simple" ELSE "auth"

\* C28: simpleAuthMiddleware with validateToken enabled and authMiddleware take the
\* same allow/reject decision, with the same status on rejection, for every request
\* and registry state, by the same exemption, session shortcut and credential.
C28_GatesAgree ==
  (g.state = "done" /\ g.kind \in {"simple", "auth"}) =>
    \A o \in {GateDecides(OtherGate, g.req, transports, g.verify.keyOk)} :
      /\ o.out = g.d.out
      /\ o.out \in {"next", "respond"}
      /\ o.status = g.d.status
      /\ o.via = g.d.via
      /\ o.token = g.d.token
      /\ o.source = g.d.source

C28_Witness ==
  /\ g.state = "done"
  /\ g.kind = "auth"
  /\ g.verify.called
  /\ g.d.status = 401
  /\ g.d.body = AuthFailed("invalid signature")
  /\ GateDecides("simple", g.req, transports, g.verify.keyOk).body
       = SimpleInvalid("invalid signature")

\* the answer a names a POST /messages whose sessionId is not in the registry (the
\* registry is the one the handler looked into: answering leaves it unchanged)
PostToUnknown(a) ==
  /\ a.req.method = "POST"
  /\ PathOf(a.req.url) = <<"/messages">>
  /\ ~Falsy(SearchParamsGet(a.req.url, "sessionId"))
  /\ getTransport(transports, SearchParamsGet(a.req.url, "sessionId")) = NoHandle

ClosedRegistered(sid) ==
  /\ sid \in DOMAIN transports
  /\ \E r \in Slots : listener[r] = sid /\ ~open[r]

\* C26: when a streaming connection closes, removeTransport is eventually invoked for
\* that connection's sessionId: a session whose connection has closed does not stay
\* registered forever, also when connecting the transport failed.
C26_ClosedSessionEventuallyRemoved ==
  \A i \in 1..MaxSessions :
    ClosedRegistered(FreshSid(i)) ~> (FreshSid(i) \notin DOMAIN transports)

\* the client was answered 401 on GET /sse without a credential
Unauth401(e) == e.what = "reject" /\ e.on = "GET" /\ e.auth = "none" /\ e.status = 401

\* the gate let the client's GET /sse with the bearer token through
BearerAllowed(e) == e.what = "allow" /\ e.on = "GET" /\ e.auth = "bearer"

\* the gate decided on a POST /messages without Authorization header that names a
\* registered session
PostToSession(e) ==
  /\ e.on = "POST"
  /\ e.auth = "none"
  /\ e.what \in {"reject", "allow", "answer"}
  /\ e.reg # NoHandle

\* the session sid was announced before position i of h, on the connection handle
SessionBefore(h, i, sid, handle) ==
  \E d \in 1..(i - 1) : h[d].what = "session" /\ h[d].sid = sid /\ h[d].handle = handle

Logged(step) == \E i \in 1..Len(vf.log) : vf.log[i] = step

\* C31: verifyToken checks the key identifier before resolving any key: a token whose
\* header has no kid fails with the missing-key-id error without any lookup against
\* the remote key set, and jwt.verify (signature, issuer, audience, expiry) starts only
\* after the signing key was resolved.
C31_KidCheckedBeforeKey ==
  /\ (vf.state # "idle" /\ vf.jwt.fmt /\ Falsy(vf.jwt.kid)) =>
       /\ vf.state = "done"
       /\ ~vf.result.ok
       /\ vf.result.message = "No key ID (kid) found in token header"
       /\ ~Logged("getSigningKey")
       /\ ~Logged("jwt.verify")
  /\ \A i \in 1..Len(vf.log) :
       vf.log[i] = "jwt.verify" =>
         /\ vf.keyOk
         /\ \E k \in 1..(i - 1) : vf.log[k] = "getSigningKey"
  /\ vf.state = "resolving" => ~Logged("jwt.verify")

\* a well-formed token without kid was rejected, and no key was looked up for it
C31_Witness ==
  /\ vf.state = "done"
  /\ vf.jwt = [GoodJwt EXCEPT !.kid = NULL]
  /\ vf.result.message = "No key ID (kid) found in token header"
  /\ vf.log = <<"decode">>
  /\ vf.lookups = <<>>

\* C33 as stated: the signing-key client is created at most once per process, by the
\* first verifyToken call; every later call resolves keys through that client, bound
\* to the jwksUri of the first call, whatever jwksUri the later call passes.
C33_ClientOfFirstCall ==
  /\ vf.created <= 1
  /\ vf.calls >= 1 => vf.client = vf.first
  /\ \A i \in 1..Len(vf.lookups) : vf.lookups[i].client = vf.first

\* C33 amended: the client is created at most once per process, by the first
\* verifyToken call that reaches key resolution (its token decodes and has a kid);
\* every later call resolves keys through that client, bound to the jwksUri of that
\* call, whatever jwksUri the later call passes; calls rejected before key resolution
\* create no client.
C33_ClientOfFirstLookup ==
  /\ vf.created <= 1
  /\ (vf.created = 1) <=> (vf.lookups # <<>>)
  /\ (vf.client = NULL) <=> (vf.lookups = <<>>)
  /\ \A i \in 1..Len(vf.lookups) :
       /\ vf.lookups[i].client = vf.lookups[1].uri
       /\ vf.client = vf.lookups[1].uri

\* the first call was rejected before key resolution; the second created the client
\* for its jwksUri; the third passed another jwksUri and was resolved through the
\* client of the second
C33_Witness ==
  /\ vf.calls = 3
  /\ Len(vf.lookups) = 2
  /\ vf.first # vf.lookups[1].uri
  /\ vf.lookups[2].uri # vf.lookups[1].uri
  /\ vf.lookups[2].client = vf.lookups[1].uri
  /\ vf.created = 1

\* the gate invoked its continuation and wrote no response
ContinuedOnly(d) == d.out = "next" /\ d.status = 0 /\ d.body = NoBody

\* the gate finalized a response, 401 or 500, and did not invoke its continuation
RespondedOnly(d) == d.out = "respond" /\ d.status \in {401, 500} /\ d.body # NoBody

\* C32: each invocation of authMiddleware or simpleAuthMiddleware ends in exactly one
\* of two outcomes: the continuation is invoked, once, and the gate writes no response,
\* or the gate finalizes a response (401 or 500) and does not invoke the continuation;
\* no request leaves the gate with neither.
C32_ContinueXorRespond ==
  /\ g.state = "done" =>
       /\ ContinuedOnly(g.d) \/ RespondedOnly(g.d)
       /\ ~(ContinuedOnly(g.d) /\ RespondedOnly(g.d))
  /\ g.state = "verifying" => (g.d.out = "verify" /\ g.d.status = 0)

\* authMiddleware was invoked on a discovery URL without a credential and went on to
\* its continuation
C32_Witness ==
  /\ g.state = "done"
  /\ g.kind = "auth"
  /\ Includes(g.req.url, WELL_KNOWN)
  /\ extractToken(g.req).token = NULL
  /\ ContinuedOnly(g.d)

====
